---- MODULE Spec2Model ----
(***************************************************************************)
(* A model of fund-tracker's operation ledger, settlement timing model and *)
(* NAV resolver (src/app/components/AppShell.tsx).                         *)
(*                                                                         *)
(* Encoding of the program's values:                                       *)
(*   - a date string "YYYY-MM-DD" is the tuple <<y, m, d>>; a string with  *)
(*     a time suffix ("YYYY-MM-DD hh:mm") is <<y, m, d, 0>>; '' is <<>>;   *)
(*     localeCompare on ISO dates is the lexicographic order of tuples;    *)
(*   - a timestamp (Date.now(), getTime()) is a number of hours since      *)
(*     1970-01-01T00:00 local time; the browser's zone is taken to be the  *)
(*     fund market's zone (Asia/Shanghai, no daylight saving);             *)
(*   - null / undefined numbers are Null.                                  *)
(***************************************************************************)
EXTENDS Integers, Sequences, FiniteSets, TLC

VARIABLES
    \* ---- settlement timing model, applied to drawn inputs
    fnPc,        \* "in": inputs drawn, "out": functions applied
    fnDate,      \* order date handed to computeApplyAt / findNavInHistoryStrict
    fnTiming,    \* "before" | "after"
    fnQdii,      \* isQdii
    fnNow,       \* Date.now() at the call
    fnHistory,   \* FundHistoryPoint[] handed to findNavInHistoryStrict
    fnApplyAt,   \* result of computeApplyAt
    fnNav,       \* result of findNavInHistoryStrict
    \* ---- NAV resolver (one fund code)
    remote,          \* the fund's paginated NAV history at the data source
    rKey,            \* the resolution key (date, timing) the calls are made with
    historyCache,    \* historyCacheRef.current: page -> <<>> | <<table data>>
    navResolveCache, \* navResolveCacheRef.current: <<>> | <<nav or Null>> for rKey
    navPending,      \* navPendingRef.current for rKey: 0 | the call whose promise is stored
    call,            \* each resolveNavForOp call: its position and result
    iife,            \* the promise each call created: its position and value
    fetchFailuresLeft, \* failed page fetches the data source may still produce
    reloadsLeft,     \* page reloads that may still happen
    fetchCount,      \* history observer: page fetches issued by each call
    failedSession,   \* history observer: a page fetch failed since the last reload
    returned,        \* history observer: values failure-free calls returned for rKey
    \* ---- operation ledger, holdings and their orchestration
    now,             \* Date.now()
    operations,      \* the ledger, newest first
    holdings,        \* the holding set
    watchlist,       \* the watchlist's fund codes
    fundCache,       \* fundCache[code].latestNav
    selectedCode,    \* the fund whose modal is open, "" when none
    selectedSource,  \* "holding" | "watchlist" | "none"
    historyOpen,     \* the modal's operation history panel is open
    nextId,          \* the next identifier createOperationId hands out
    trade,           \* handleTradeAdd / handleTradeReduce awaiting its NAV: <<>> | <<t>>
    batch,           \* applyBatchImport in flight: <<>> | <<b>>
    backfill,        \* refreshOperationAmounts in flight and not cancelled: <<>> | <<p>>
    opAmountSyncKey, \* opAmountSyncKeyRef.current
    effectsDirty,    \* the [operations, selectedCode] effects are due to re-run
    navDirty,        \* selectedLatestNav changed: the reconciliation effect is due
    recompute,       \* recomputeHoldingsFromOperations in flight, not cancelled: <<>> | <<p>>
    holdingSyncKey,  \* holdingSyncKeyRef.current: code -> <<>> | <<key>>
    refresh,         \* refreshData in flight: <<>> | <<its closure and position>>
    undone,          \* history observer: the last undo no later handler has overwritten
    alerted,         \* the trade forms whose "no NAV" window.alert has been shown
    removed,         \* history observer: the funds removed, no operation started since
    \* ---- computeHoldingFromOperations, applied to drawn ledgers
    recOps,          \* the operations handed to the calls
    recLatestNav,    \* the latestNav handed to the calls
    recSource,       \* the fund's NAV table at the data source, newest first
    recNavs,         \* what the resolver holds for each key (date, timing)
    recCall,         \* the call in progress: <<>> | <<its loop's position>>
    recResults       \* what the completed calls returned, in order

fnVars == <<fnPc, fnDate, fnTiming, fnQdii, fnNow, fnHistory, fnApplyAt, fnNav>>

resolverVars == <<remote, rKey, historyCache, navResolveCache, navPending, call, iife,
                  fetchFailuresLeft, reloadsLeft, fetchCount, failedSession, returned>>

recVars == <<recOps, recLatestNav, recSource, recNavs, recCall, recResults>>

appVars == <<now, operations, holdings, watchlist, fundCache, selectedCode, selectedSource,
             historyOpen, nextId, trade, batch, backfill, opAmountSyncKey,
             effectsDirty, navDirty, recompute, holdingSyncKey, refresh, undone,
             alerted, removed>>

vars == <<fnVars, resolverVars, appVars, recVars>>

\* null / undefined where a number is expected (outside every number's range)
Null == 0 - 999999999

\* a rejected promise's outcome
Rejected == Null - 1

Timings == {"before", "after"}

-----------------------------------------------------------------------------
(* The calendar behind JavaScript's Date (local time, proleptic Gregorian). *)

IsLeap(y) == (y % 4 = 0 /\ y % 100 # 0) \/ y % 400 = 0

DaysInMonth(y, m) ==
    IF m = 2 THEN (IF IsLeap(y) THEN 29 ELSE 28)
    ELSE IF m \in {4, 6, 9, 11} THEN 30 ELSE 31

DaysInYear(y) == IF IsLeap(y) THEN 366 ELSE 365

LeapsThrough(y) == (y \div 4) - (y \div 100) + (y \div 400)

\* days from 1970-01-01 to y-01-01
DaysBeforeYear(y) == 365 * (y - 1970) + LeapsThrough(y - 1) - LeapsThrough(1969)

RECURSIVE DaysBeforeMonth(_, _)
DaysBeforeMonth(y, m) ==
    IF m <= 1 THEN 0 ELSE DaysBeforeMonth(y, m - 1) + DaysInMonth(y, m - 1)

\* Date.prototype.setDate with a day past the end of the month: the Date
\* rolls over into the following months (and years).
RECURSIVE NormalizeDate(_)
NormalizeDate(dt) ==
    IF dt.d <= DaysInMonth(dt.y, dt.m) THEN dt
    ELSE NormalizeDate(
            IF dt.m = 12
            THEN [dt EXCEPT !.y = dt.y + 1, !.m = 1, !.d = dt.d - DaysInMonth(dt.y, dt.m)]
            ELSE [dt EXCEPT !.m = dt.m + 1, !.d = dt.d - DaysInMonth(dt.y, dt.m)])

\* Date.prototype.getTime, in hours
GetTime(dt) == (DaysBeforeYear(dt.y) + DaysBeforeMonth(dt.y, dt.m) + (dt.d - 1)) * 24 + dt.h

\* new Date(`${s}T15:00:00`) is a valid Date only for a well-formed date
IsValidDateStr(s) ==
    /\ Len(s) = 3
    /\ s[2] \in 1..12
    /\ s[3] \in 1..DaysInMonth(s[1], s[2])

RECURSIVE YearOfDay(_, _)
YearOfDay(y, n) == IF n < DaysBeforeYear(y + 1) THEN y ELSE YearOfDay(y + 1, n)

RECURSIVE MonthOfDay(_, _, _)
MonthOfDay(y, m, n) ==
    IF n < DaysBeforeMonth(y, m + 1) THEN m ELSE MonthOfDay(y, m + 1, n)

\* the calendar date of day number n (days since 1970-01-01)
DateOfDay(n) ==
    LET y == YearOfDay(1970 + (n \div 366), n)
        r == n - DaysBeforeYear(y)
        m == MonthOfDay(y, 1, r)
    IN  <<y, m, r - DaysBeforeMonth(y, m) + 1>>

\* todayCn(): the date of the instant t
todayCn(t) == DateOfDay(t \div 24)

\* a.localeCompare(b) < 0 on date strings
DateLess(a, b) ==
    \E i \in 1..Len(b) :
        /\ \A j \in 1..(i - 1) : j <= Len(a) /\ a[j] = b[j]
        /\ (i > Len(a) \/ a[i] < b[i])

-----------------------------------------------------------------------------
(* Settlement timing model                                                  *)

\* the confirmation delay with the days for before/after exchanged
computeApplyAtSwapped(date, timing, isQdii, nowT) ==
    LET baseDate == IF date # <<>> THEN date ELSE todayCn(nowT)
    IN  IF ~IsValidDateStr(baseDate) THEN nowT
        ELSE LET base  == [y |-> baseDate[1], m |-> baseDate[2], d |-> baseDate[3], h |-> 15]
                 delay == IF timing = "before" THEN 2 ELSE 1
                 extra == IF isQdii THEN 1 ELSE 0
             IN  GetTime(NormalizeDate([base EXCEPT !.d = base.d + delay + extra]))

\* the cutoff of the order date itself: the delay is never added
computeApplyAtNoDelay(date, timing, isQdii, nowT) ==
    LET baseDate == IF date # <<>> THEN date ELSE todayCn(nowT)
    IN  IF ~IsValidDateStr(baseDate) THEN nowT
        ELSE GetTime([y |-> baseDate[1], m |-> baseDate[2], d |-> baseDate[3], h |-> 15])

computeApplyAt(date, timing, isQdii, nowT) ==
    LET baseDate == IF date # <<>> THEN date ELSE todayCn(nowT)
    IN  IF ~IsValidDateStr(baseDate) THEN nowT
        ELSE LET base  == [y |-> baseDate[1], m |-> baseDate[2], d |-> baseDate[3], h |-> 15]
                 delay == IF timing = "before" THEN 1 ELSE 2
                 extra == IF isQdii THEN 1 ELSE 0
             IN  GetTime(NormalizeDate([base EXCEPT !.d = base.d + delay + extra]))

normalizeHistoryDate(value) ==
    IF value = <<>> THEN <<>>
    ELSE SubSeq(value, 1, IF Len(value) < 3 THEN Len(value) ELSE 3)

\* Array.prototype.sort with (a, b) => a.date.localeCompare(b.date): stable
RECURSIVE InsertByDate(_, _)
InsertByDate(sorted, item) ==
    IF sorted = <<>> THEN <<item>>
    ELSE IF DateLess(item.date, Head(sorted).date)
         THEN <<item>> \o sorted
         ELSE <<Head(sorted)>> \o InsertByDate(Tail(sorted), item)

RECURSIVE SortByDate(_)
SortByDate(s) ==
    IF s = <<>> THEN <<>>
    ELSE InsertByDate(SortByDate(SubSeq(s, 1, Len(s) - 1)), s[Len(s)])

\* Array.prototype.findIndex: the first index satisfying the test, 0 if none
FirstIndex(s, Test(_)) ==
    IF \E i \in 1..Len(s) : Test(s[i])
    THEN CHOOSE i \in 1..Len(s) : Test(s[i]) /\ \A j \in 1..(i - 1) : ~Test(s[j])
    ELSE 0

NormalizedSorted(history) ==
    SortByDate(SelectSeq(
        [i \in 1..Len(history) |->
            [date |-> normalizeHistoryDate(history[i].date), nav |-> history[i].nav]],
        LAMBDA item : item.date # <<>>))

\* the price-selection rule accepting the nearest later date for "before"
findNavInHistoryLoose(date, timing, history) ==
    IF date = <<>> \/ history = <<>> THEN Null
    ELSE LET target == normalizeHistoryDate(date)
             sorted == NormalizedSorted(history)
             next   == FirstIndex(sorted, LAMBDA item : ~DateLess(item.date, target))
         IN  IF next > 0 THEN sorted[next].nav ELSE Null

findNavInHistoryStrict(date, timing, history) ==
    IF date = <<>> \/ history = <<>> THEN Null
    ELSE LET target == normalizeHistoryDate(date)
             sorted == NormalizedSorted(history)
             exactIndex == FirstIndex(sorted, LAMBDA item : item.date = target)
             next   == FirstIndex(sorted, LAMBDA item : DateLess(target, item.date))
         IN  IF sorted = <<>> THEN Null
             ELSE IF timing = "before"
                  THEN (IF exactIndex > 0 THEN sorted[exactIndex].nav ELSE Null)
                  ELSE IF exactIndex > 0
                       THEN (IF exactIndex + 1 <= Len(sorted)
                             THEN sorted[exactIndex + 1].nav ELSE Null)
                       ELSE IF next > 0 THEN sorted[next].nav ELSE Null

-----------------------------------------------------------------------------
(* Each specification below exercises one part of the program; the state of *)
(* the parts it leaves alone rests at these values.                         *)

FnIdle ==
    /\ fnPc = "idle" /\ fnDate = <<>> /\ fnTiming = "before" /\ fnQdii = FALSE
    /\ fnNow = 0 /\ fnHistory = <<>> /\ fnApplyAt = Null /\ fnNav = Null

ResolverIdle ==
    /\ remote = <<>> /\ rKey = [date |-> <<>>, timing |-> "before"]
    /\ historyCache = <<>> /\ navResolveCache = <<>> /\ navPending = 0
    /\ call = <<>> /\ iife = <<>> /\ fetchFailuresLeft = 0 /\ reloadsLeft = 0
    /\ fetchCount = <<>> /\ failedSession = FALSE /\ returned = {}

RecIdle ==
    /\ recOps = <<>> /\ recLatestNav = Null /\ recSource = <<>> /\ recNavs = <<>>
    /\ recCall = <<>> /\ recResults = <<>>

AppIdle ==
    /\ now = 0 /\ operations = <<>> /\ holdings = <<>> /\ watchlist = {}
    /\ fundCache = <<>>
    /\ selectedCode = "" /\ selectedSource = "none" /\ historyOpen = FALSE
    /\ nextId = 0 /\ trade = <<>> /\ batch = <<>>
    /\ backfill = <<>> /\ opAmountSyncKey = <<>> /\ effectsDirty = FALSE
    /\ navDirty = FALSE /\ recompute = <<>> /\ holdingSyncKey = <<>> /\ refresh = <<>>
    /\ undone = <<>> /\ alerted = {} /\ removed = {}

-----------------------------------------------------------------------------
(* The settlement timing model applied to drawn inputs (TimingSpec).        *)

MaxHistLen == 3

FnDates ==
    { <<2023, 2, 27>>, <<2023, 2, 28>>, <<2024, 2, 27>>, <<2024, 2, 28>>,
      <<2024, 2, 29>>, <<2024, 4, 29>>, <<2024, 4, 30>>, <<2024, 5, 10>>,
      <<2024, 12, 29>>, <<2024, 12, 30>>, <<2024, 12, 31>>, <<2100, 2, 27>>,
      <<2024, 13, 1>>, <<>> }

HistDates == { <<2024, 5, 9>>, <<2024, 5, 10>>, <<2024, 5, 13>> }

\* date cells as the history source may deliver them
RawHistDates == HistDates \cup { <<2024, 5, 10, 0>>, <<>> }

HistNavs == {1, 2}

HistRecords == [date : RawHistDates, nav : HistNavs]

Histories == UNION { [1..n -> HistRecords] : n \in 0..MaxHistLen }

TimingInit ==
    /\ ResolverIdle
    /\ AppIdle
    /\ RecIdle
    /\ fnApplyAt = Null /\ fnNav = Null
    /\ fnTiming \in Timings
    /\ \/ /\ fnPc = "timing_in"
          /\ fnDate \in FnDates
          /\ fnQdii \in BOOLEAN
          /\ fnNow \in {GetTime([y |-> 2024, m |-> 5, d |-> 10, h |-> 9]),
                        GetTime([y |-> 2024, m |-> 12, d |-> 31, h |-> 23])}
          /\ fnHistory = <<>>
       \/ /\ fnPc = "nav_in"
          /\ fnDate \in HistDates \cup { <<2024, 5, 14>> }
          /\ fnQdii = FALSE
          /\ fnNow = 0
          /\ fnHistory \in Histories

ApplyComputeApplyAt ==
    /\ fnPc = "timing_in"
    /\ fnApplyAt' = computeApplyAt(fnDate, fnTiming, fnQdii, fnNow)
    /\ fnPc' = "timing_out"
    /\ UNCHANGED <<fnDate, fnTiming, fnQdii, fnNow, fnHistory, fnNav>>
    /\ UNCHANGED <<resolverVars, appVars, recVars>>

ApplyFindNav ==
    /\ fnPc = "nav_in"
    /\ fnNav' = findNavInHistoryStrict(fnDate, fnTiming, fnHistory)
    /\ fnPc' = "nav_out"
    /\ UNCHANGED <<fnDate, fnTiming, fnQdii, fnNow, fnHistory, fnApplyAt>>
    /\ UNCHANGED <<resolverVars, appVars, recVars>>

TimingNext == ApplyComputeApplyAt \/ ApplyFindNav

TimingSpec == TimingInit /\ [][TimingNext]_vars

\* the day after a calendar date
NextDay(date) ==
    IF date[3] < DaysInMonth(date[1], date[2]) THEN <<date[1], date[2], date[3] + 1>>
    ELSE IF date[2] < 12 THEN <<date[1], date[2] + 1, 1>>
    ELSE <<date[1] + 1, 1, 1>>

RECURSIVE PlusDays(_, _)
PlusDays(date, n) == IF n = 0 THEN date ELSE PlusDays(NextDay(date), n - 1)

\* C6: for a valid order date d, computeApplyAt is 15:00 on the N-th day
\* after d, N = 1 (before) or 2 (after), plus 1 for a QDII fund; 2024-05-10
\* gives 2024-05-11T15:00 (before) and 2024-05-12T15:00 (after).
C6_ApplyAtIsCutoffPlusDelay ==
    (fnPc = "timing_out" /\ IsValidDateStr(fnDate)) =>
        LET N == (IF fnTiming = "before" THEN 1 ELSE 2) + (IF fnQdii THEN 1 ELSE 0)
        IN  /\ fnApplyAt % 24 = 15
            /\ todayCn(fnApplyAt) = PlusDays(fnDate, N)
            /\ (fnDate = <<2024, 5, 10>> /\ ~fnQdii) =>
                   fnApplyAt = GetTime([y |-> 2024, m |-> 5, h |-> 15,
                                        d |-> IF fnTiming = "before" THEN 11 ELSE 12])

C6_Witness ==
    /\ fnPc = "timing_out" /\ fnDate = <<2024, 2, 28>>
    /\ fnTiming = "after" /\ fnQdii
    /\ todayCn(fnApplyAt) = <<2024, 3, 2>>

\* C7: for timing = before the price-selection rule returns the NAV of a
\* record dated the order date, and null when the history has no such record.
C7_BeforeNeedsExactDate ==
    (fnPc = "nav_out" /\ fnTiming = "before") =>
        LET same == { i \in 1..Len(fnHistory) :
                        normalizeHistoryDate(fnHistory[i].date) = fnDate }
        IN  /\ same = {} => fnNav = Null
            /\ same # {} => \E i \in same : fnNav = fnHistory[i].nav

C7_Witness ==
    /\ fnPc = "nav_out" /\ fnTiming = "before" /\ fnDate = <<2024, 5, 10>>
    /\ fnNav = Null
    /\ \E i, j \in 1..Len(fnHistory) :
          /\ fnHistory[i].date = <<2024, 5, 9>>
          /\ fnHistory[j].date = <<2024, 5, 13>>

-----------------------------------------------------------------------------
(* NAV table cache and NAV resolver (ResolverSpec): resolveNavForOp calls   *)
(* for one key of one fund, against a paginated remote history.             *)

MaxPages == 2
MaxRowsPerPage == 2
MaxCalls == 2
MaxFetchFailures == 1
MaxReloads == 1

Calls == 1..MaxCalls

\* the unit NAV the data source publishes for a trading day
NavOf(date) == date[3]

Rows == { [date |-> d, nav |-> NavOf(d)] : d \in HistDates }

PageContents == UNION { [1..n -> Rows] : n \in 0..MaxRowsPerPage }

RemoteHistories == UNION { [1..n -> PageContents] : n \in 1..MaxPages }

\* the body of an OK response of /api/fund/<code>/history-table?page=p
TableData(p) == [isNull |-> FALSE, content |-> remote[p], pages |-> Len(remote)]

NullData == [isNull |-> TRUE, content |-> <<>>, pages |-> 0]

IdleCall == [pc |-> "idle", owner |-> 0, result |-> Null, sawPending |-> FALSE]

IdleIife == [state |-> "none", page |-> 0, totalPages |-> 0, value |-> Null]

extractHistoryFromTable(content) ==
    SelectSeq(
        [i \in 1..Len(content) |->
            [date |-> normalizeHistoryDate(content[i].date), nav |-> content[i].nav]],
        LAMBDA item : item.date # <<>>)

RECURSIVE CombinedRows(_, _)
CombinedRows(cache, p) ==
    IF p > Len(cache) THEN <<>>
    ELSE (IF cache[p] # <<>> /\ ~cache[p][1].isNull /\ cache[p][1].content # <<>>
          THEN extractHistoryFromTable(cache[p][1].content) ELSE <<>>)
         \o CombinedRows(cache, p + 1)

findNavFromHistoryTable(date, timing, cache) ==
    IF \A p \in 1..Len(cache) :
          cache[p] = <<>> \/ cache[p][1].isNull \/ cache[p][1].content = <<>>
    THEN Null
    ELSE findNavInHistoryStrict(date, timing, CombinedRows(cache, 1))

\* a lookup of the in-flight map that never finds the key
PendingForNone(key) == 0

\* navPendingRef.current.get(key)
PendingFor(key) == IF key = rKey THEN navPending ELSE 0

\* the rows s split into pages of `per` rows
RECURSIVE Paginate(_, _)
Paginate(s, per) ==
    IF Len(s) <= per THEN <<s>>
    ELSE <<SubSeq(s, 1, per)>> \o Paginate(SubSeq(s, per + 1, Len(s)), per)

\* the history table as the data source serves it: newest first
NewestFirst ==
    << [date |-> <<2024, 5, 13>>, nav |-> NavOf(<<2024, 5, 13>>)],
       [date |-> <<2024, 5, 10>>, nav |-> NavOf(<<2024, 5, 10>>)],
       [date |-> <<2024, 5, 9>>, nav |-> NavOf(<<2024, 5, 9>>)] >>

PagedHistories == { Paginate(NewestFirst, per) : per \in 1..Len(NewestFirst) }

ResolverStart(remotes, reloads) ==
    /\ FnIdle
    /\ AppIdle
    /\ RecIdle
    /\ remote \in remotes
    /\ rKey \in [date : HistDates, timing : Timings]
    /\ reloadsLeft = reloads
    /\ historyCache = [p \in 1..Len(remote) |-> <<>>]
    /\ navResolveCache = <<>>
    /\ navPending = 0
    /\ call = [c \in Calls |-> IdleCall]
    /\ iife = [c \in Calls |-> IdleIife]
    /\ fetchFailuresLeft = MaxFetchFailures
    /\ fetchCount = [c \in Calls |-> 0]
    /\ failedSession = FALSE
    /\ returned = {}

ResolverInit == ResolverStart(RemoteHistories, MaxReloads)

SingleFlightInit == ResolverStart(PagedHistories, 0)

Note(value) == IF failedSession THEN returned ELSE returned \cup {value}

\* resolveNavForOp up to its first suspension
Resolve(c) ==
    /\ call[c].pc = "idle"
    /\ LET normalizedDate == normalizeHistoryDate(rKey.date)
           fromCache == findNavFromHistoryTable(normalizedDate, rKey.timing, historyCache)
       IN  IF normalizedDate = <<>>
           THEN /\ call' = [call EXCEPT ![c] = [IdleCall EXCEPT !.pc = "done"]]
                /\ UNCHANGED <<iife, navPending, fetchCount, returned>>
           ELSE IF navResolveCache # <<>>
           THEN /\ call' = [call EXCEPT ![c] =
                              [IdleCall EXCEPT !.pc = "done", !.result = navResolveCache[1]]]
                /\ returned' = Note(navResolveCache[1])
                /\ UNCHANGED <<iife, navPending, fetchCount>>
           ELSE IF PendingFor(rKey) # 0
           THEN /\ call' = [call EXCEPT ![c] =
                              [IdleCall EXCEPT !.pc = "joined", !.owner = PendingFor(rKey),
                                               !.sawPending = TRUE]]
                /\ UNCHANGED <<iife, navPending, fetchCount, returned>>
           ELSE /\ call' = [call EXCEPT ![c] =
                              [IdleCall EXCEPT !.pc = "await", !.owner = c,
                                               !.sawPending = (navPending # 0)]]
                /\ navPending' = c
                /\ UNCHANGED returned
                /\ IF fromCache # Null
                   THEN /\ iife' = [iife EXCEPT ![c] =
                                      [IdleIife EXCEPT !.state = "fulfilled", !.value = fromCache]]
                        /\ UNCHANGED fetchCount
                   ELSE /\ iife' = [iife EXCEPT ![c] =
                                      [IdleIife EXCEPT !.state = "fetching", !.page = 1]]
                        /\ fetchCount' = [fetchCount EXCEPT ![c] = @ + 1]
    /\ UNCHANGED <<remote, rKey, historyCache, navResolveCache, fetchFailuresLeft,
                   reloadsLeft, failedSession>>
    /\ UNCHANGED <<fnVars, appVars, recVars>>

\* the promise's loop after page `page` brought no match
AfterPage(c, totalPages) ==
    IF iife[c].page + 1 <= totalPages
    THEN /\ iife' = [iife EXCEPT ![c] =
                       [@ EXCEPT !.page = @ + 1, !.totalPages = totalPages]]
         /\ fetchCount' = [fetchCount EXCEPT ![c] = @ + 1]
    ELSE /\ iife' = [iife EXCEPT ![c] =
                       [@ EXCEPT !.state = "fulfilled", !.value = Null,
                                 !.totalPages = totalPages]]
         /\ UNCHANGED fetchCount

\* fetchPage(page) answers OK: the page is cached and searched on its own
FetchOk(c) ==
    /\ iife[c].state = "fetching"
    /\ LET data == TableData(iife[c].page)
           nav  == findNavInHistoryStrict(normalizeHistoryDate(rKey.date), rKey.timing,
                                          extractHistoryFromTable(data.content))
           totalPages == IF iife[c].page = 1
                         THEN (IF data.pages > 0 THEN data.pages ELSE 1)
                         ELSE iife[c].totalPages
       IN  /\ historyCache' = [historyCache EXCEPT ![iife[c].page] = <<data>>]
           /\ IF nav # Null
              THEN /\ iife' = [iife EXCEPT ![c] =
                                 [@ EXCEPT !.state = "fulfilled", !.value = nav,
                                           !.totalPages = totalPages]]
                   /\ UNCHANGED fetchCount
              ELSE AfterPage(c, totalPages)
    /\ UNCHANGED <<remote, rKey, navResolveCache, navPending, call, fetchFailuresLeft,
                   reloadsLeft, failedSession, returned>>
    /\ UNCHANGED <<fnVars, appVars, recVars>>

\* fetchPage(page) answers with a non-OK status: fetchPage returns null
FetchNotOk(c) ==
    /\ iife[c].state = "fetching"
    /\ fetchFailuresLeft > 0
    /\ fetchFailuresLeft' = fetchFailuresLeft - 1
    /\ failedSession' = TRUE
    /\ IF iife[c].page = 1
       THEN /\ iife' = [iife EXCEPT ![c] = [@ EXCEPT !.state = "fulfilled", !.value = Null]]
            /\ UNCHANGED fetchCount
       ELSE AfterPage(c, iife[c].totalPages)
    /\ UNCHANGED <<remote, rKey, historyCache, navResolveCache, navPending, call,
                   reloadsLeft, returned>>
    /\ UNCHANGED <<fnVars, appVars, recVars>>

\* fetch or res.json() throws: the promise is rejected
FetchThrows(c) ==
    /\ iife[c].state = "fetching"
    /\ fetchFailuresLeft > 0
    /\ fetchFailuresLeft' = fetchFailuresLeft - 1
    /\ failedSession' = TRUE
    /\ iife' = [iife EXCEPT ![c] = [@ EXCEPT !.state = "rejected", !.value = Rejected]]
    /\ UNCHANGED <<remote, rKey, historyCache, navResolveCache, navPending, call,
                   reloadsLeft, fetchCount, returned>>
    /\ UNCHANGED <<fnVars, appVars, recVars>>

\* resolveNavForOp after `await promise`
Settle(c) ==
    /\ call[c].pc = "await"
    /\ iife[c].state \in {"fulfilled", "rejected"}
    /\ IF iife[c].state = "fulfilled"
       THEN /\ navResolveCache' = <<iife[c].value>>
            /\ navPending' = 0
            /\ returned' = Note(iife[c].value)
       ELSE UNCHANGED <<navResolveCache, navPending, returned>>
    /\ call' = [call EXCEPT ![c] = [@ EXCEPT !.pc = "done", !.result = iife[c].value]]
    /\ UNCHANGED <<remote, rKey, historyCache, iife, fetchFailuresLeft, reloadsLeft,
                   fetchCount, failedSession>>
    /\ UNCHANGED <<fnVars, appVars, recVars>>

\* a call that returned the stored promise completes when that promise settles
JoinedSettle(c) ==
    /\ call[c].pc = "joined"
    /\ iife[call[c].owner].state \in {"fulfilled", "rejected"}
    /\ call' = [call EXCEPT ![c] =
                  [@ EXCEPT !.pc = "done", !.result = iife[call[c].owner].value]]
    /\ returned' = IF iife[call[c].owner].state = "fulfilled"
                   THEN Note(iife[call[c].owner].value) ELSE returned
    /\ UNCHANGED <<remote, rKey, historyCache, navResolveCache, navPending, iife,
                   fetchFailuresLeft, reloadsLeft, fetchCount, failedSession>>
    /\ UNCHANGED <<fnVars, appVars, recVars>>

\* ensureFundExtras(code, page): the history table tab loads a page
EnsureFundExtras(p) ==
    /\ p \in 1..Len(remote)
    /\ historyCache[p] = <<>>
    /\ \/ /\ historyCache' = [historyCache EXCEPT ![p] = <<TableData(p)>>]
          /\ UNCHANGED fetchFailuresLeft
       \/ /\ fetchFailuresLeft > 0
          /\ fetchFailuresLeft' = fetchFailuresLeft - 1
          /\ historyCache' = [historyCache EXCEPT ![p] = <<NullData>>]
    /\ UNCHANGED <<remote, rKey, navResolveCache, navPending, call, iife, reloadsLeft,
                   fetchCount, failedSession, returned>>
    /\ UNCHANGED <<fnVars, appVars, recVars>>

\* the page is reloaded: every ref starts empty again, the data source is the same
Reload ==
    /\ reloadsLeft > 0
    /\ reloadsLeft' = reloadsLeft - 1
    /\ historyCache' = [p \in 1..Len(remote) |-> <<>>]
    /\ navResolveCache' = <<>>
    /\ navPending' = 0
    /\ call' = [c \in Calls |-> IdleCall]
    /\ iife' = [c \in Calls |-> IdleIife]
    /\ fetchCount' = [c \in Calls |-> 0]
    /\ failedSession' = FALSE
    /\ UNCHANGED <<remote, rKey, fetchFailuresLeft, returned>>
    /\ UNCHANGED <<fnVars, appVars, recVars>>

SingleFlightNext ==
    \/ \E c \in Calls : Resolve(c)
    \/ \E c \in Calls : FetchOk(c)
    \/ \E c \in Calls : FetchNotOk(c)
    \/ \E c \in Calls : FetchThrows(c)
    \/ \E c \in Calls : Settle(c)
    \/ \E c \in Calls : JoinedSettle(c)
    \/ \E p \in 1..Len(remote) : EnsureFundExtras(p)

ResolverNext == SingleFlightNext \/ Reload

\* calls for one key, the history tab and page reloads, over every small history
ResolverSpec == ResolverInit /\ [][ResolverNext]_vars

\* concurrent calls for one key within one page load
SingleFlightSpec == SingleFlightInit /\ [][SingleFlightNext]_vars

\* every row of the remote history, page after page
RECURSIVE FlatHistory(_)
FlatHistory(pages) ==
    IF pages = <<>> THEN <<>> ELSE Head(pages) \o FlatHistory(Tail(pages))

\* the history as the data source serves it: newest first, one row per date
WellFormedRemote ==
    LET flat == FlatHistory(remote)
    IN  \A i, j \in 1..Len(flat) : i < j => DateLess(flat[j].date, flat[i].date)

\* the NAV of the earliest trading date after `date` in the whole history
NextTradingNav(date) ==
    LET flat  == FlatHistory(remote)
        later == { i \in 1..Len(flat) : DateLess(date, flat[i].date) }
    IN  IF later = {} THEN Null
        ELSE flat[CHOOSE i \in later :
                    \A j \in later : ~DateLess(flat[j].date, flat[i].date)].nav

\* C8: for timing = after, a call that met no fetch failure returns the NAV of
\* the earliest trading date strictly after the order date in the fund's whole
\* paginated history, or null when there is none (stated on histories served
\* newest first with one row per date).
C8_AfterIsNextTradingDay ==
    \A c \in DOMAIN call :
        (/\ call[c].pc = "done" /\ call[c].result # Rejected
         /\ rKey.timing = "after" /\ ~failedSession /\ WellFormedRemote)
        => call[c].result = NextTradingNav(rKey.date)

\* C9: over one remote history, every failure-free call for a key returns the
\* same value, whatever pages the NAV table cache held when it started.
C9_SameResultWhateverCache ==
    WellFormedRemote => Cardinality(returned) <= 1

\* C10: a call that finds its key in flight issues no page fetch of its own
\* and completes with the result of the call that is in flight, and at most
\* one call per key ever starts the fetch sequence.
C10_SingleFlight ==
    /\ \A c \in DOMAIN call :
          call[c].sawPending =>
             /\ fetchCount[c] = 0
             /\ iife[c].state = "none"
             /\ call[c].owner # c
             /\ call[c].pc = "done" =>
                   /\ call[c].result = iife[call[c].owner].value
                   /\ call[call[c].owner].pc = "done" =>
                         call[call[c].owner].result = call[c].result
    /\ Cardinality({ c \in DOMAIN iife : iife[c].state # "none" }) <= 1

C10_Witness ==
    \E c, d \in DOMAIN call :
        /\ c # d
        /\ call[c].pc = "done" /\ call[d].pc = "done"
        /\ call[d].sawPending /\ call[d].owner = c
        /\ fetchCount[c] = 2 /\ fetchCount[d] = 0
        /\ call[c].result = call[d].result /\ call[c].result # Null

\* the NAV the data source holds for `date`, Null when it has no row for it
PublishedNav(date) ==
    LET flat == FlatHistory(remote)
        hits == { i \in 1..Len(flat) : flat[i].date = date }
    IN  IF hits = {} THEN Null
        ELSE flat[CHOOSE i \in hits : \A j \in hits : i <= j].nav

\* every call of the session has either not started or has completed
NoCallInFlight == \A d \in Calls : call[d].pc \in {"idle", "done"}

\* C11: after a page fetch of the session has failed and the fetch collaborator
\* has recovered, a call for a `before` key whose date the data source holds
\* either starts a resolution of its own or completes with the NAV of that
\* date: the failure has left no null in the result cache.
C11_FailedFetchNotCached ==
    [][\A c \in Calls :
          (/\ failedSession /\ fetchFailuresLeft = 0 /\ NoCallInFlight
           /\ rKey.timing = "before" /\ PublishedNav(rKey.date) # Null
           /\ call[c].pc = "idle" /\ call'[c].pc # "idle")
          => \/ call'[c].pc = "await" /\ call'[c].owner = c
             \/ call'[c].pc = "done" /\ call'[c].result = PublishedNav(rKey.date)]_vars

\* C12: once the call that stored the in-flight entry of a key has settled,
\* by returning a value or by failing, the in-flight map holds no entry of
\* that call for the key.
C12_NoEntryOnceSettled ==
    \A c \in Calls :
        (call[c].pc = "done" /\ call[c].owner = c) => navPending # c

\* histories whose newest trading day is not yet published
UnpublishedHistories ==
    { Paginate(Tail(NewestFirst), per) : per \in 1..(Len(NewestFirst) - 1) }

PublicationInit == ResolverStart(UnpublishedHistories, 0)

\* the data source publishes the NAV of the order date, newest row first
Publish ==
    /\ PublishedNav(rKey.date) = Null
    /\ \A i \in 1..Len(FlatHistory(remote)) :
          DateLess(FlatHistory(remote)[i].date, rKey.date)
    /\ remote' = [remote EXCEPT ![1] =
                    <<[date |-> rKey.date, nav |-> NavOf(rKey.date)]>> \o @]
    /\ UNCHANGED <<rKey, historyCache, navResolveCache, navPending, call, iife,
                   fetchFailuresLeft, reloadsLeft, fetchCount, failedSession, returned>>
    /\ UNCHANGED <<fnVars, appVars, recVars>>

PublicationNext == SingleFlightNext \/ Publish

\* calls for one key while the data source publishes the NAV of the order date
PublicationSpec == PublicationInit /\ [][PublicationNext]_vars

\* C13: once the data source holds a record for the order date of a `before`
\* key, a call for that key that starts in a session without fetch failures
\* and completes at once completes with that NAV, not with null.
C13_ResolvedOncePublished ==
    [][\A c \in Calls :
          (/\ ~failedSession /\ rKey.timing = "before"
           /\ PublishedNav(rKey.date) # Null
           /\ call[c].pc = "idle" /\ call'[c].pc = "done")
          => call'[c].result = PublishedNav(rKey.date)]_vars

-----------------------------------------------------------------------------
(* Holdings and ledger operations.                                          *)
(*   money (amount, profit, fee): hundredths; shares: hundredths;           *)
(*   NAV and costPrice: ten-thousandths; a double that the code leaves      *)
(*   unrounded is kept to the precision of its unit.                        *)
(*   A "Holding | null" is <<>> or <<h>>.                                   *)

Codes == {"F1"}

\* isQdiiFund(name): decided by the fund's name
isQdiiFund(code) == code = "F2"

\* Number((a / b).toFixed(..)) for b > 0
RoundDiv(a, b) ==
    IF a >= 0 THEN (2 * a + b) \div (2 * b) ELSE 0 - ((2 * (0 - a) + b) \div (2 * b))

Truthy(x) == x # Null /\ x # 0

\* shares * nav, as money
SharesTimesNav(shares, nav) == RoundDiv(shares * nav, 10000)

\* amount / nav, as shares
AmountOverNav(amount, nav) == RoundDiv(amount * 10000, nav)

FindHolding(list, code) ==
    LET idx == FirstIndex(list, LAMBDA item : item.code = code)
    IN  IF idx = 0 THEN <<>> ELSE <<list[idx]>>

RemoveHolding(list, code) == SelectSeq(list, LAMBDA item : item.code # code)

computeCostUnit(amount, profit, latestNav) ==
    IF ~Truthy(amount) \/ ~Truthy(latestNav) THEN Null
    ELSE RoundDiv((amount - (IF Truthy(profit) THEN profit ELSE 0)) * latestNav, amount)

buildHoldingPayload(code, method, values, latestNav) ==
    IF method = "shares"
    THEN [code |-> code, method |-> "shares",
          shares |-> values.shares, costPrice |-> values.costPrice,
          firstBuy |-> values.firstBuy,
          amount |-> IF Truthy(latestNav) /\ Truthy(values.shares)
                     THEN SharesTimesNav(values.shares, latestNav) ELSE Null,
          profit |-> IF Truthy(latestNav) /\ Truthy(values.shares) /\ values.costPrice # Null
                     THEN RoundDiv((latestNav - values.costPrice) * values.shares, 10000)
                     ELSE Null]
    ELSE [code |-> code, method |-> "amount",
          amount |-> values.amount, profit |-> values.profit,
          firstBuy |-> values.firstBuy,
          shares |-> IF Truthy(latestNav) /\ Truthy(values.amount)
                     THEN AmountOverNav(values.amount, latestNav) ELSE Null,
          costPrice |-> IF Truthy(latestNav)
                        THEN computeCostUnit(values.amount, values.profit, latestNav)
                        ELSE Null]

\* saveHolding's setHoldings updater
SaveHolding(list, payload) ==
    LET idx == FirstIndex(list, LAMBDA item : item.code = payload.code)
    IN  IF idx > 0 THEN [list EXCEPT ![idx] = payload] ELSE Append(list, payload)

\* the ledger cap
MaxLedger == 200

\* a cap that lets the list grow by one
TruncateLate(list) == IF Len(list) > MaxLedger + 1 THEN SubSeq(list, 1, MaxLedger + 1) ELSE list

\* next.length > 200 ? next.slice(0, 200) : next
Truncate(list) == IF Len(list) > MaxLedger THEN SubSeq(list, 1, MaxLedger) ELSE list

\* recordOperation's setOperations updater
RecordOperation(list, op) == Truncate(<<op>> \o list)

\* the status an operation is created with: a status that ignores the clock
BornPending(nowT, applyAt) == "pending"

\* now >= applyAt ? 'confirmed' : 'pending'
StatusAt(nowT, applyAt) == IF nowT >= applyAt THEN "confirmed" ELSE "pending"

buildEditOperation(id, nowT, prev, next) ==
    [id |-> id, code |-> next.code, type |-> "edit", status |-> "confirmed",
     createdAt |-> nowT, applyAt |-> nowT, method |-> next.method,
     amount |-> next.amount, shares |-> next.shares, nav |-> Null,
     feeRate |-> Null, fee |-> Null, date |-> todayCn(nowT), timing |-> "",
     isQdii |-> FALSE, prev |-> prev, next |-> <<next>>]

buildTradeOperation(id, nowT, type, prev, next, meta) ==
    LET date    == IF meta.date # <<>> THEN meta.date ELSE todayCn(nowT)
        applyAt == computeApplyAt(date, meta.timing, meta.isQdii, nowT)
    IN  [id |-> id,
         code |-> IF prev # <<>> THEN prev[1].code
                  ELSE IF next # <<>> THEN next[1].code ELSE "",
         type |-> type, status |-> StatusAt(nowT, applyAt),
         createdAt |-> nowT, applyAt |-> applyAt, method |-> meta.method,
         amount |-> meta.amount, shares |-> meta.shares, nav |-> meta.nav,
         feeRate |-> meta.feeRate, fee |-> meta.fee, date |-> date,
         timing |-> meta.timing, isQdii |-> meta.isQdii, prev |-> prev, next |-> next]

\* The holding a trade leaves and the operation that records it, as handleTrade
\* and each item of applyBatchImport compute them from the holding `prev`;
\* `skip` when the trade is dropped.
TradeOutcome(id, nowT, code, type, prev, latestNav, v) ==
    LET p == IF prev # <<>> THEN prev[1]
             ELSE [code |-> code, method |-> "", amount |-> Null, profit |-> Null,
                   shares |-> Null, costPrice |-> Null, firstBuy |-> <<>>]
        method == IF p.method # "" THEN p.method
                  ELSE IF v.shares # Null THEN "shares" ELSE "amount"
        baseAmount == IF p.amount # Null THEN p.amount
                      ELSE IF Truthy(p.shares) /\ Truthy(latestNav)
                           THEN SharesTimesNav(p.shares, latestNav) ELSE 0
        baseProfit == IF p.profit # Null THEN p.profit
                      ELSE IF Truthy(p.shares) /\ p.costPrice # Null /\ Truthy(latestNav)
                           THEN RoundDiv((latestNav - p.costPrice) * p.shares, 10000) ELSE 0
        baseShares == IF p.shares # Null THEN p.shares
                      ELSE IF Truthy(p.amount) /\ Truthy(latestNav)
                           THEN AmountOverNav(p.amount, latestNav) ELSE 0
        deltaAmount == IF v.amount # Null THEN v.amount
                       ELSE IF v.shares # Null /\ Truthy(v.tradeNav)
                            THEN SharesTimesNav(v.shares, v.tradeNav) ELSE 0
        deltaShares == IF v.shares # Null THEN v.shares
                       ELSE IF v.amount # Null /\ Truthy(v.tradeNav)
                            THEN AmountOverNav(v.amount, v.tradeNav) ELSE 0
        nextShares == IF type = "add" THEN baseShares + deltaShares
                      ELSE baseShares - deltaShares
        nextAmount == IF type = "add" THEN baseAmount + deltaAmount
                      ELSE baseAmount - deltaAmount
        firstBuy   == IF p.firstBuy # <<>> THEN p.firstBuy ELSE v.date
        nextHolding ==
            IF method = "shares"
            THEN IF nextShares > 0
                 THEN <<buildHoldingPayload(code, "shares",
                          [amount |-> Null, profit |-> Null, shares |-> nextShares,
                           costPrice |-> p.costPrice, firstBuy |-> firstBuy], latestNav)>>
                 ELSE <<>>
            ELSE IF nextAmount > 0
                 THEN <<buildHoldingPayload(code, "amount",
                          [amount |-> nextAmount,
                           profit |-> IF type = "reduce" /\ baseAmount > 0
                                      THEN RoundDiv(baseProfit * nextAmount, baseAmount)
                                      ELSE baseProfit,
                           shares |-> Null, costPrice |-> Null, firstBuy |-> firstBuy],
                          latestNav)>>
                 ELSE <<>>
        skip == \/ type = "reduce" /\ prev = <<>>
                \/ type = "reduce" /\ method = "shares" /\ baseShares <= 0
                \/ type = "reduce" /\ method = "amount" /\ baseAmount <= 0
    IN  [skip |-> skip, next |-> nextHolding,
         op |-> buildTradeOperation(id, nowT, type, prev, nextHolding,
                   [amount |-> v.amount, shares |-> v.shares, feeRate |-> v.feeRate,
                    fee |-> v.fee, date |-> v.date, timing |-> v.timing,
                    isQdii |-> v.isQdii, method |-> method, nav |-> v.nav])]

-----------------------------------------------------------------------------
(* Reconciliation: computeHoldingFromOperations folds a fund's operations   *)
(* into a Holding.  The running cost is a double the code never rounds: it  *)
(* is kept in millionths (shares in hundredths times a price in             *)
(* ten-thousandths), an amount of money being 10000 millionths per          *)
(* hundredth.                                                               *)

Micro == 10000

\* a * b / c to the nearest unit, for 0 <= b <= c (the quotient a \div c is
\* taken first so that no intermediate value leaves the integer range)
ScaleBy(a, b, c) ==
    IF a >= 0 THEN (a \div c) * b + RoundDiv((a % c) * b, c)
    ELSE 0 - ((((0 - a) \div c) * b) + RoundDiv(((0 - a) % c) * b, c))

\* the comparator of the sort: by date when both are set and differ, else by
\* createdAt
OpBefore(a, b) ==
    IF a.date # <<>> /\ b.date # <<>> /\ a.date # b.date
    THEN DateLess(a.date, b.date)
    ELSE a.createdAt < b.createdAt

RECURSIVE InsertOp(_, _)
InsertOp(sorted, op) ==
    IF sorted = <<>> THEN <<op>>
    ELSE IF OpBefore(op, Head(sorted)) THEN <<op>> \o sorted
    ELSE <<Head(sorted)>> \o InsertOp(Tail(sorted), op)

\* ops.slice().sort(...): stable
RECURSIVE SortOps(_)
SortOps(ops) ==
    IF ops = <<>> THEN <<>>
    ELSE InsertOp(SortOps(SubSeq(ops, 1, Len(ops) - 1)), ops[Len(ops)])

\* op.timing || 'before'
TimingOf(op) == IF op.timing = "" THEN "before" ELSE op.timing

\* whether the loop body awaits resolveNavForOp for this operation
AwaitsNav(op) ==
    \/ /\ op.type = "edit" /\ op.next # <<>>
       /\ ~(op.next[1].method = "shares" /\ op.next[1].shares # Null)
       /\ op.next[1].method = "amount" /\ op.next[1].amount # Null
    \/ op.type \in {"add", "reduce"} /\ op.shares = Null /\ op.amount # Null

\* the date and timing the loop body resolves the NAV for
NavKeyOf(op) == <<op.date, TimingOf(op)>>

\* amount / nav with the fallback to latestNav; Null when neither is usable
SharesFor(amount, nav, latestNav) ==
    IF Truthy(nav) THEN AmountOverNav(amount, nav)
    ELSE IF Truthy(latestNav) THEN AmountOverNav(amount, latestNav)
    ELSE Null

\* the loop body for an edit that carries a next snapshot
foldEdit(acc, op, nav, latestNav) ==
    LET next == op.next[1]
        firstBuy == IF next.firstBuy # <<>> THEN next.firstBuy
                    ELSE IF acc.firstBuy # <<>> THEN acc.firstBuy ELSE op.date
    IN  IF next.method = "shares" /\ next.shares # Null
        THEN [shares |-> next.shares,
              cost |-> IF next.costPrice # Null THEN next.shares * next.costPrice
                       ELSE IF next.amount # Null /\ Truthy(latestNav)
                       THEN next.amount * Micro ELSE acc.cost,
              firstBuy |-> firstBuy]
        ELSE IF next.method = "amount" /\ next.amount # Null
        THEN [shares |-> IF SharesFor(next.amount, nav, latestNav) # Null
                         THEN SharesFor(next.amount, nav, latestNav) ELSE acc.shares,
              cost |-> (next.amount - (IF next.profit # Null THEN next.profit ELSE 0))
                       * Micro,
              firstBuy |-> firstBuy]
        ELSE [acc EXCEPT !.firstBuy = firstBuy]

\* an add that leaves the fee out of the cost
foldAddNoFee(acc, op, nav, latestNav) ==
    LET deltaShares == IF op.shares # Null THEN op.shares
                       ELSE IF op.amount # Null THEN SharesFor(op.amount, nav, latestNav)
                       ELSE Null
        deltaAmount == IF op.amount # Null THEN op.amount
                       ELSE IF Truthy(deltaShares) /\ Truthy(latestNav)
                       THEN SharesTimesNav(deltaShares, latestNav) ELSE 0
    IN  IF deltaShares # Null /\ deltaShares > 0
        THEN [shares |-> acc.shares + deltaShares,
              cost |-> acc.cost + deltaAmount * Micro,
              firstBuy |-> IF acc.firstBuy = <<>> THEN op.date ELSE acc.firstBuy]
        ELSE acc

\* the loop body for an add
foldAdd(acc, op, nav, latestNav) ==
    LET deltaShares == IF op.shares # Null THEN op.shares
                       ELSE IF op.amount # Null THEN SharesFor(op.amount, nav, latestNav)
                       ELSE Null
        fee == IF op.fee # Null THEN op.fee ELSE 0
        deltaAmount == IF op.amount # Null THEN op.amount
                       ELSE IF Truthy(deltaShares) /\ Truthy(latestNav)
                       THEN SharesTimesNav(deltaShares, latestNav) ELSE 0
    IN  IF deltaShares # Null /\ deltaShares > 0
        THEN [shares |-> acc.shares + deltaShares,
              cost |-> acc.cost + (deltaAmount + fee) * Micro,
              firstBuy |-> IF acc.firstBuy = <<>> THEN op.date ELSE acc.firstBuy]
        ELSE acc

\* a reduce that leaves the running cost as it was
foldReduceKeepCost(acc, op, nav, latestNav) ==
    LET deltaShares == IF op.shares # Null THEN op.shares
                       ELSE IF op.amount # Null THEN SharesFor(op.amount, nav, latestNav)
                       ELSE Null
    IN  IF deltaShares # Null /\ deltaShares > 0 /\ acc.shares > 0
        THEN [acc EXCEPT !.shares = IF acc.shares - deltaShares > 0
                                    THEN acc.shares - deltaShares ELSE 0]
        ELSE acc

\* a reduce that lets the running shares go below zero
foldReduceUnclamped(acc, op, nav, latestNav) ==
    LET deltaShares == IF op.shares # Null THEN op.shares
                       ELSE IF op.amount # Null THEN SharesFor(op.amount, nav, latestNav)
                       ELSE Null
        shares == acc.shares - deltaShares
    IN  IF deltaShares # Null /\ deltaShares > 0 /\ acc.shares > 0
        THEN [acc EXCEPT !.shares = shares,
                         !.cost = IF shares >= 0 THEN ScaleBy(acc.cost, shares, acc.shares)
                                  ELSE 0 - ScaleBy(acc.cost, 0 - shares, acc.shares)]
        ELSE acc

\* the loop body for a reduce
foldReduce(acc, op, nav, latestNav) ==
    LET deltaShares == IF op.shares # Null THEN op.shares
                       ELSE IF op.amount # Null THEN SharesFor(op.amount, nav, latestNav)
                       ELSE Null
        shares == IF acc.shares - deltaShares > 0 THEN acc.shares - deltaShares ELSE 0
    IN  IF deltaShares # Null /\ deltaShares > 0 /\ acc.shares > 0
        THEN [acc EXCEPT !.shares = shares,
                         !.cost = ScaleBy(acc.cost, shares, acc.shares)]
        ELSE acc

\* one iteration of the loop; nav is what the iteration's await yielded
foldOp(acc, op, nav, latestNav) ==
    IF op.type = "edit" /\ op.next # <<>> THEN foldEdit(acc, op, nav, latestNav)
    ELSE IF op.type = "add" THEN foldAdd(acc, op, nav, latestNav)
    ELSE IF op.type = "reduce" THEN foldReduce(acc, op, nav, latestNav)
    ELSE acc

EmptyFold == [shares |-> 0, cost |-> 0, firstBuy |-> <<>>]

\* what the function returns after the loop: "Holding | null"
foldResult(code, acc, latestNav) ==
    IF acc.shares > 0
    THEN LET amount == IF Truthy(latestNav) THEN SharesTimesNav(acc.shares, latestNav)
                       ELSE Null
         IN  << [code |-> code, method |-> "shares", amount |-> amount,
                 profit |-> IF amount # Null
                            THEN RoundDiv(amount * Micro - acc.cost, Micro) ELSE Null,
                 shares |-> acc.shares,
                 costPrice |-> RoundDiv(acc.cost, acc.shares),
                 firstBuy |-> acc.firstBuy] >>
    ELSE <<>>

RECURSIVE foldFrom(_, _, _, _, _)
foldFrom(acc, sorted, i, navs, latestNav) ==
    IF i > Len(sorted) THEN acc
    ELSE foldFrom(foldOp(acc, sorted[i],
                         IF AwaitsNav(sorted[i]) THEN navs[NavKeyOf(sorted[i])] ELSE Null,
                         latestNav),
                  sorted, i + 1, navs, latestNav)

\* computeHoldingFromOperations, navs[<<date, timing>>] being what
\* resolveNavForOp yields for each key the loop awaits
computeHoldingFromOperations(code, ops, latestNav, navs) ==
    foldResult(code, foldFrom(EmptyFold, SortOps(ops), 1, navs, latestNav), latestNav)

-----------------------------------------------------------------------------
(* ReconcileSpec: computeHoldingFromOperations called twice in succession   *)
(* on a drawn ledger.  Each await of resolveNavForOp is a step: a key the   *)
(* resolver has settled yields what it stored; otherwise the page fetch     *)
(* answers with the source's table, answers non-OK, or throws.  The data    *)
(* source may publish the newest day's NAV at any moment.                   *)

MaxFoldOps == 2

\* the number of successive calls
Reconciles == 2

PublishedDay == <<2024, 2, 29>>

\* the fund's NAV table before and after the newest day is published
SourceBefore ==
    << [date |-> <<2024, 2, 27>>, nav |-> 10000], [date |-> <<2024, 2, 26>>, nav |-> 10000] >>

SourceAfter == << [date |-> PublishedDay, nav |-> 12500] >> \o SourceBefore

FoldKeys == { <<d, t>> : d \in { <<2024, 2, 26>>, <<2024, 2, 27>>, PublishedDay },
                         t \in Timings }

\* an operation as the ledger stores it, created at hour `id`
LedgerOp(id, type, date, amount, shares, fee, next) ==
    [id |-> id, code |-> "F1", type |-> type, status |-> "confirmed",
     createdAt |-> id, applyAt |-> id,
     method |-> IF next # <<>> THEN next[1].method ELSE "shares",
     amount |-> amount, shares |-> shares, nav |-> Null, feeRate |-> Null, fee |-> fee,
     date |-> date, timing |-> IF type = "edit" THEN "" ELSE "before",
     isQdii |-> FALSE, prev |-> <<>>, next |-> next]

SharesSnapshot ==
    [code |-> "F1", method |-> "shares", amount |-> 10000, profit |-> 0,
     shares |-> 10000, costPrice |-> 10000, firstBuy |-> <<2024, 2, 1>>]

AmountSnapshot ==
    [code |-> "F1", method |-> "amount", amount |-> 10000, profit |-> 500,
     shares |-> Null, costPrice |-> Null, firstBuy |-> <<>>]

FoldOps ==
    { LedgerOp(1, "add", <<2024, 2, 26>>, 10000, Null, 0, <<>>),
      LedgerOp(2, "add", <<2024, 2, 26>>, 10000, 10000, 150, <<>>),
      LedgerOp(3, "add", PublishedDay, 5000, Null, 150, <<>>),
      LedgerOp(4, "reduce", <<2024, 2, 27>>, Null, 4000, 0, <<>>),
      LedgerOp(5, "reduce", <<2024, 2, 27>>, 4000, Null, 0, <<>>),
      LedgerOp(6, "edit", <<2024, 2, 26>>, 10000, 10000, Null, <<SharesSnapshot>>),
      LedgerOp(7, "edit", <<2024, 2, 27>>, 10000, Null, Null, <<AmountSnapshot>>) }

\* ledgers of distinct operations
FoldLedgers ==
    { l \in UNION { [1..n -> FoldOps] : n \in 1..MaxFoldOps } :
        \A i, j \in 1..Len(l) : i # j => l[i].id # l[j].id }

ReconcileInit ==
    /\ FnIdle
    /\ ResolverIdle
    /\ AppIdle
    /\ recOps \in FoldLedgers
    /\ recLatestNav \in {10000, 12000}
    /\ recSource = SourceBefore
    /\ recNavs = [k \in FoldKeys |-> <<>>]
    /\ recCall = <<>>
    /\ recResults = <<>>

\* a lookup of the result cache that never finds the key
navResolveCacheMiss(key) == <<>>

\* what the resolver holds for a key: <<>> when it has not settled it, the
\* cached result, or Rejected when its in-flight entry is a rejected promise
navResolveCacheGet(key) == recNavs[key]

\* the call starts: the ledger is sorted
ReconcileStart ==
    /\ recCall = <<>>
    /\ Len(recResults) < Reconciles
    /\ recCall' = << [sorted |-> SortOps(recOps), idx |-> 1, acc |-> EmptyFold] >>
    /\ UNCHANGED <<recOps, recLatestNav, recSource, recNavs, recResults>>
    /\ UNCHANGED <<fnVars, resolverVars, appVars>>

\* the loop body runs on with the NAV its await yielded
FoldOn(nav) ==
    LET c == recCall[1]
    IN  recCall' = << [c EXCEPT !.idx = c.idx + 1,
                                !.acc = foldOp(c.acc, c.sorted[c.idx], nav, recLatestNav)] >>

\* one iteration of the loop, its await of resolveNavForOp included
ReconcileStep ==
    /\ recCall # <<>>
    /\ recCall[1].idx <= Len(recCall[1].sorted)
    /\ LET op  == recCall[1].sorted[recCall[1].idx]
           key == NavKeyOf(op)
       IN  IF ~AwaitsNav(op)
           THEN FoldOn(Null) /\ UNCHANGED <<recNavs, recResults>>
           ELSE IF navResolveCacheGet(key) = <<Rejected>>
           THEN /\ recCall' = <<>>
                /\ recResults' = Append(recResults, [ok |-> FALSE, holding |-> <<>>])
                /\ UNCHANGED recNavs
           ELSE IF navResolveCacheGet(key) # <<>>
           THEN FoldOn(navResolveCacheGet(key)[1]) /\ UNCHANGED <<recNavs, recResults>>
           ELSE \/ \E nav \in { findNavInHistoryStrict(key[1], key[2],
                                    extractHistoryFromTable(recSource)), Null } :
                     /\ recNavs' = [recNavs EXCEPT ![key] = <<nav>>]
                     /\ FoldOn(nav)
                     /\ UNCHANGED recResults
                \/ /\ recNavs' = [recNavs EXCEPT ![key] = <<Rejected>>]
                   /\ recCall' = <<>>
                   /\ recResults' = Append(recResults, [ok |-> FALSE, holding |-> <<>>])
    /\ UNCHANGED <<recOps, recLatestNav, recSource>>
    /\ UNCHANGED <<fnVars, resolverVars, appVars>>

\* after the loop the call returns its Holding or null
ReconcileReturn ==
    /\ recCall # <<>>
    /\ recCall[1].idx > Len(recCall[1].sorted)
    /\ recResults' = Append(recResults,
                        [ok |-> TRUE,
                         holding |-> foldResult("F1", recCall[1].acc, recLatestNav)])
    /\ recCall' = <<>>
    /\ UNCHANGED <<recOps, recLatestNav, recSource, recNavs>>
    /\ UNCHANGED <<fnVars, resolverVars, appVars>>

\* the data source publishes the NAV of the newest day
PublishNav ==
    /\ recSource = SourceBefore
    /\ recSource' = SourceAfter
    /\ UNCHANGED <<recOps, recLatestNav, recNavs, recCall, recResults>>
    /\ UNCHANGED <<fnVars, resolverVars, appVars>>

ReconcileNext == ReconcileStart \/ ReconcileStep \/ ReconcileReturn \/ PublishNav

ReconcileSpec == ReconcileInit /\ [][ReconcileNext]_vars

\* C14: two successive calls of computeHoldingFromOperations with the same
\* operations and latestNav, the second starting from the resolver caches the
\* first left, end alike: Holdings equal in every field, null both times, or
\* failing both times.
C14_ReconcileIdempotent ==
    Len(recResults) = Reconciles => recResults[1] = recResults[2]

C14_Witness ==
    /\ Len(recResults) = Reconciles
    /\ recResults[1].ok /\ recResults[1].holding # <<>>
    /\ recResults[2].ok
    /\ recSource = SourceAfter
    /\ recNavs[<<PublishedDay, "before">>] = <<Null>>

\* the ledger is a single add of amount A > 0 with fee F >= 0 settled at NAV
\* 1.0, reconciled with latestNav 1.0
SingleAddAtPar ==
    /\ Len(recOps) = 1
    /\ recOps[1].type = "add"
    /\ recOps[1].amount # Null /\ recOps[1].amount > 0
    /\ recOps[1].fee # Null /\ recOps[1].fee >= 0
    /\ recLatestNav = 10000
    /\ \/ recOps[1].shares = recOps[1].amount
       \/ recOps[1].shares = Null /\ recNavs[NavKeyOf(recOps[1])] = <<10000>>

\* C15 as stated: a single add of amount A with fee F at NAV 1.0 yields
\* shares = A, cost (costPrice x shares) = A + F and profit = 0.
C15_ConservationZeroProfit ==
    \A i \in 1..Len(recResults) :
        (SingleAddAtPar /\ recResults[i].ok)
        => /\ recResults[i].holding # <<>>
           /\ recResults[i].holding[1].shares = recOps[1].amount
           /\ recResults[i].holding[1].costPrice * recResults[i].holding[1].shares
                 = (recOps[1].amount + recOps[1].fee) * Micro
           /\ recResults[i].holding[1].profit = 0

\* C15: a single add of amount A with fee F at NAV 1.0, latestNav 1.0, leaves
\* running shares A and running cost A + F; the Holding has shares = A,
\* amount = A, costPrice = (A + F) / A to 4 decimals and profit = -F.
C15_ConservationNetOfFee ==
    /\ (SingleAddAtPar /\ recCall # <<>> /\ recCall[1].idx > Len(recCall[1].sorted))
       => /\ recCall[1].acc.shares = recOps[1].amount
          /\ recCall[1].acc.cost = (recOps[1].amount + recOps[1].fee) * Micro
    /\ \A i \in 1..Len(recResults) :
          (SingleAddAtPar /\ recResults[i].ok)
          => /\ recResults[i].holding # <<>>
             /\ recResults[i].holding[1].shares = recOps[1].amount
             /\ recResults[i].holding[1].amount = recOps[1].amount
             /\ recResults[i].holding[1].costPrice
                   = RoundDiv((recOps[1].amount + recOps[1].fee) * Micro, recOps[1].amount)
             /\ recResults[i].holding[1].profit = 0 - recOps[1].fee

C15_Witness ==
    /\ SingleAddAtPar
    /\ recOps[1].fee = 150 /\ recOps[1].amount = 10000
    /\ Len(recResults) >= 1 /\ recResults[1].ok
    /\ recResults[1].holding[1].shares = 10000
    /\ recResults[1].holding[1].costPrice = 10150
    /\ recResults[1].holding[1].profit = 0 - 150

\* C16: a loop iteration that applies a reduce of d shares, 0 < d < s, to
\* running shares s and running cost c leaves shares s - d and the cost
\* nearest to c x (s - d) / s, and the cost price c / s (to 4 decimals) is
\* what it was.
C16_PartialSellScalesCost ==
    [][(/\ recCall # <<>> /\ recCall' # <<>>
        /\ recCall'[1].idx = recCall[1].idx + 1
        /\ recCall[1].sorted[recCall[1].idx].type = "reduce")
       => LET op == recCall[1].sorted[recCall[1].idx]
              s  == recCall[1].acc.shares
              c  == recCall[1].acc.cost
              d  == IF op.shares # Null THEN op.shares
                    ELSE SharesFor(op.amount, recNavs'[NavKeyOf(op)][1], recLatestNav)
              q  == c \div s
              r  == c % s
              part == recCall'[1].acc.cost - q * (s - d)
              off  == part * s - r * (s - d)
          IN  (d # Null /\ 0 < d /\ d < s /\ c >= 0)
              => /\ recCall'[1].acc.shares = s - d
                 /\ RoundDiv(recCall'[1].acc.cost, s - d) = RoundDiv(c, s)
                 /\ 0 <= part /\ part <= s
                 /\ 2 * off <= s /\ 0 - 2 * off <= s]_vars

\* shares 100, cost 100, reduce 40 with latestNav 1.2: shares 60, cost 60
\* (cost price 1.0), profit 12
C16_Witness ==
    /\ recLatestNav = 12000
    /\ \E i \in 1..Len(recOps) :
          recOps[i].type = "reduce" /\ recOps[i].shares = 4000
    /\ \E i \in 1..Len(recOps) :
          recOps[i].type = "add" /\ recOps[i].amount = 10000 /\ recOps[i].fee = 0
    /\ Len(recResults) >= 1 /\ recResults[1].ok /\ recResults[1].holding # <<>>
    /\ recResults[1].holding[1].shares = 6000
    /\ recResults[1].holding[1].costPrice = 10000
    /\ recResults[1].holding[1].amount = 7200
    /\ recResults[1].holding[1].profit = 1200

-----------------------------------------------------------------------------
(* FoldSpec: the same calls on ledgers that hold what the forms accept: an  *)
(* oversell, edits in either method, an edit whose profit exceeds its       *)
(* amount, an edit with negative shares (the inputs have no lower bound),   *)
(* with or without a latestNav.                                             *)

OverProfitSnapshot ==
    [code |-> "F1", method |-> "amount", amount |-> 10000, profit |-> 15000,
     shares |-> 10000, costPrice |-> 0 - 5000, firstBuy |-> <<2024, 2, 1>>]

NegativeSnapshot ==
    [code |-> "F1", method |-> "shares", amount |-> 0 - 1000, profit |-> 0,
     shares |-> 0 - 1000, costPrice |-> 10000, firstBuy |-> <<2024, 2, 1>>]

EdgeOps ==
    { LedgerOp(1, "add", <<2024, 2, 26>>, 10000, 10000, 150, <<>>),
      LedgerOp(2, "reduce", <<2024, 2, 27>>, Null, 20000, 0, <<>>),
      LedgerOp(3, "reduce", <<2024, 2, 27>>, Null, 4000, 0, <<>>),
      LedgerOp(4, "edit", <<2024, 2, 27>>, 10000, 10000, Null, <<SharesSnapshot>>),
      LedgerOp(5, "edit", PublishedDay, 10000, Null, Null, <<AmountSnapshot>>),
      LedgerOp(6, "edit", <<2024, 2, 27>>, 10000, 10000, Null, <<OverProfitSnapshot>>),
      LedgerOp(7, "edit", <<2024, 2, 27>>, 0 - 1000, 0 - 1000, Null, <<NegativeSnapshot>>) }

EdgeLedgers ==
    { l \in UNION { [1..n -> EdgeOps] : n \in 1..MaxFoldOps } :
        \A i, j \in 1..Len(l) : i # j => l[i].id # l[j].id }

FoldInit ==
    /\ FnIdle
    /\ ResolverIdle
    /\ AppIdle
    /\ recOps \in EdgeLedgers
    /\ recLatestNav \in {Null, 10000}
    /\ recSource = SourceBefore
    /\ recNavs = [k \in FoldKeys |-> <<>>]
    /\ recCall = <<>>
    /\ recResults = <<>>

FoldSpec == FoldInit /\ [][ReconcileNext]_vars

\* a loop iteration has just folded the operation at the loop's position
Folded ==
    /\ recCall # <<>> /\ recCall' # <<>>
    /\ recCall'[1].idx = recCall[1].idx + 1

FoldedOp == recCall[1].sorted[recCall[1].idx]

\* the NAV the iteration's await yielded
YieldedNav == IF AwaitsNav(FoldedOp) THEN recNavs'[NavKeyOf(FoldedOp)][1] ELSE Null

\* C26: an edit is an authoritative override.  After the loop folds an edit
\* that carries a next snapshot, the running shares and the running cost are
\* what folding that edit into an empty position gives, whatever was folded
\* before it, in either method and with or without a NAV.
C26_EditOverrides ==
    [][(Folded /\ FoldedOp.type = "edit" /\ FoldedOp.next # <<>>)
       => LET alone == foldOp(EmptyFold, FoldedOp, YieldedNav, recLatestNav)
          IN  /\ recCall'[1].acc.shares = alone.shares
              /\ recCall'[1].acc.cost = alone.cost]_vars

\* C27 as stated: the running shares and the running cost are never negative
\* at any step of the fold, and every Holding emitted has shares > 0.
C27_NeverNegative ==
    /\ recCall # <<>> => recCall[1].acc.shares >= 0 /\ recCall[1].acc.cost >= 0
    /\ \A i \in 1..Len(recResults) :
          recResults[i].holding # <<>> => recResults[i].holding[1].shares > 0

\* a snapshot with shares >= 0, and a cost (shares x costPrice, or
\* amount - profit) >= 0
SoundSnapshot(next) ==
    IF next.method = "shares" /\ next.shares # Null
    THEN next.shares >= 0 /\ (next.costPrice # Null => next.costPrice >= 0)
    ELSE IF next.method = "amount" /\ next.amount # Null
    THEN next.amount >= 0 /\ next.amount >= (IF next.profit # Null THEN next.profit ELSE 0)
    ELSE TRUE

\* C27: an add or a reduce never takes the running shares or the running cost
\* below zero: a reduce larger than the running shares clamps the shares to 0
\* and the cost to 0; an edit leaves both non-negative when its snapshot has
\* shares >= 0 and a cost >= 0; every Holding emitted has shares > 0.
C27_ClampedAtZero ==
    /\ [][Folded =>
            LET op == FoldedOp
                acc == recCall[1].acc
                after == recCall'[1].acc
                d == IF op.shares # Null THEN op.shares
                     ELSE IF op.amount # Null
                     THEN SharesFor(op.amount, YieldedNav, recLatestNav) ELSE Null
            IN  /\ (/\ acc.shares >= 0 /\ acc.cost >= 0
                    /\ (op.type = "edit" /\ op.next # <<>>) => SoundSnapshot(op.next[1])
                    /\ op.type = "add" => (op.fee = Null \/ op.fee >= 0)
                                          /\ (op.amount = Null \/ op.amount >= 0))
                   => after.shares >= 0 /\ after.cost >= 0
                /\ (op.type = "reduce" /\ d # Null /\ acc.shares > 0 /\ d >= acc.shares)
                   => after.shares = 0 /\ after.cost = 0]_vars
    /\ [](\A i \in 1..Len(recResults) :
            recResults[i].holding # <<>> => recResults[i].holding[1].shares > 0)

\* a reduce of 200 shares has been folded onto 100 shares bought for 101.50:
\* the call returned null
C27_Witness ==
    /\ Len(recOps) = 2
    /\ \E i \in 1..2 : recOps[i].type = "add" /\ recOps[i].shares = 10000
    /\ \E i \in 1..2 : recOps[i].type = "reduce" /\ recOps[i].shares = 20000
    /\ Len(recResults) >= 1
    /\ recResults[1].ok /\ recResults[1].holding = <<>>
-----------------------------------------------------------------------------
(* The application: ledger, holdings, status poll, NAV backfill (Spec).     *)
(* resolveNavForOp is a suspension point.  The data source's NAV table is   *)
(* fixed during a run and fits one page, where the resolver's answer is the *)
(* strict search of that page.                                              *)
(* The history panel is a submodal that covers the trade forms, so trades,  *)
(* edits and imports start while it is closed; undo is offered inside it.   *)

MaxOps == 2

\* the instants at which something happens
Clock ==
    << GetTime([y |-> 2024, m |-> 2, d |-> 28, h |-> 16]),
       GetTime([y |-> 2024, m |-> 3, d |-> 1, h |-> 16]) >>

LatestNavs == { 10000 }

\* the NAV table of every fund at the data source, newest first
SourceTable ==
    << [date |-> <<2024, 2, 29>>, nav |-> 10000], [date |-> <<2024, 2, 28>>, nav |-> 10000],
       [date |-> <<2024, 2, 27>>, nav |-> 10000], [date |-> <<2024, 2, 26>>, nav |-> 10000] >>

\* what the holding form can hold when the user saves it
FormPayloads ==
    { [method |-> "shares", amount |-> Null, profit |-> Null, shares |-> 10000,
       costPrice |-> 10000, firstBuy |-> <<2024, 2, 1>>] }

\* what the trade forms can hold when submitted (date '' is today)
TradeInputs ==
    { [type |-> "add", amount |-> 10000, shares |-> Null, date |-> <<2024, 2, 26>>,
       timing |-> "before"],
      [type |-> "reduce", amount |-> Null, shares |-> 5000, date |-> <<>>,
       timing |-> "after"] }

\* items the batch text parser supplies (an item may carry amount and shares)
BatchAdd ==
    [type |-> "add", amount |-> 10000, shares |-> Null, date |-> <<2024, 2, 28>>,
     timing |-> "before"]

BatchReduce ==
    [type |-> "reduce", amount |-> 4000, shares |-> 5000, date |-> <<2024, 2, 28>>,
     timing |-> "after"]

\* the imports a user makes
BatchInputs == { <<BatchReduce>>, <<BatchReduce, BatchAdd>> }

AppStart(ledger) ==
    /\ FnIdle
    /\ ResolverIdle
    /\ RecIdle
    /\ now = Clock[1]
    /\ operations = ledger
    /\ holdings = <<>>
    /\ watchlist = {}
    /\ fundCache \in [Codes -> LatestNavs]
    /\ selectedCode = ""
    /\ selectedSource = "none"
    /\ historyOpen = FALSE
    /\ nextId = 1
    /\ trade = <<>>
    /\ batch = <<>>
    /\ backfill = <<>>
    /\ opAmountSyncKey = <<>>
    /\ effectsDirty = FALSE
    /\ navDirty = FALSE
    /\ recompute = <<>>
    /\ holdingSyncKey = [c \in Codes |-> <<>>]
    /\ refresh = <<>>
    /\ undone = <<>>
    /\ alerted = {}
    /\ removed = {}

AppInit == AppStart(<<>>)

Others == <<fnVars, resolverVars, recVars>>

\* what `await resolveNavForOp(code, date, timing)` yields
resolveNavForOp(code, date, timing) ==
    findNavInHistoryStrict(date, timing, extractHistoryFromTable(SourceTable))

\* time passes
Tick ==
    /\ \E i \in 1..(Len(Clock) - 1) : now = Clock[i] /\ now' = Clock[i + 1]
    /\ UNCHANGED <<operations, holdings, watchlist, fundCache, selectedCode,
                   selectedSource, historyOpen, nextId, trade, batch, backfill,
                   opAmountSyncKey, effectsDirty, navDirty, recompute, holdingSyncKey,
                   refresh, undone, alerted, removed>>
    /\ UNCHANGED Others

\* a poll that confirms every pending operation
DueAlways(op, nowT) == op.status = "pending"

\* op.status === 'pending' && now >= op.applyAt
Due(op, nowT) == op.status = "pending" /\ nowT >= op.applyAt

\* the periodic status poll
updateStatus ==
    /\ operations' = [i \in 1..Len(operations) |->
                        IF Due(operations[i], now)
                        THEN [operations[i] EXCEPT !.status = "confirmed"]
                        ELSE operations[i]]
    /\ effectsDirty' = (effectsDirty \/ \E i \in 1..Len(operations) : Due(operations[i], now))
    /\ UNCHANGED <<now, holdings, watchlist, fundCache, selectedCode, selectedSource,
                   historyOpen, nextId, trade, batch, backfill, opAmountSyncKey,
                   navDirty, recompute, holdingSyncKey, refresh, undone, alerted,
                   removed>>
    /\ UNCHANGED Others

\* source: the card clicked ("holding", "watchlist") or "" for a search result
openModal(code, source) ==
    /\ selectedCode = ""
    /\ source = "holding" => FindHolding(holdings, code) # <<>>
    /\ source = "watchlist" => code \in watchlist
    /\ selectedCode' = code
    /\ selectedSource' =
         IF source # "" THEN source
         ELSE IF FindHolding(holdings, code) # <<>> THEN "holding"
         ELSE IF code \in watchlist THEN "watchlist" ELSE "none"
    /\ historyOpen' = FALSE
    /\ effectsDirty' = TRUE
    /\ UNCHANGED <<now, operations, holdings, watchlist, fundCache, nextId, trade,
                   batch, backfill, opAmountSyncKey, navDirty, recompute,
                   holdingSyncKey, refresh, undone, alerted, removed>>
    /\ UNCHANGED Others

\* the fund data fetch that openModal and the refresh start, completing
ensureFundData(code) ==
    /\ fundCache[code] = Null
    /\ code = selectedCode \/ code \in watchlist \/ FindHolding(holdings, code) # <<>>
    /\ \E nav \in LatestNavs : fundCache' = [fundCache EXCEPT ![code] = nav]
    /\ navDirty' = (navDirty \/ code = selectedCode)
    /\ UNCHANGED <<now, operations, holdings, watchlist, selectedCode, selectedSource,
                   historyOpen, nextId, trade, batch, backfill, opAmountSyncKey,
                   effectsDirty, recompute, holdingSyncKey, refresh, undone, alerted,
                   removed>>
    /\ UNCHANGED Others

closeModal ==
    /\ selectedCode # ""
    /\ ~historyOpen
    /\ selectedCode' = ""
    /\ selectedSource' = "none"
    /\ historyOpen' = FALSE
    /\ effectsDirty' = TRUE
    /\ UNCHANGED <<now, operations, holdings, watchlist, fundCache, nextId, trade,
                   batch, backfill, opAmountSyncKey, navDirty, recompute,
                   holdingSyncKey, refresh, undone, alerted, removed>>
    /\ UNCHANGED Others

\* the modal opens or closes its operation history panel
onHistoryOpenChange ==
    /\ selectedCode # ""
    /\ historyOpen' = ~historyOpen
    /\ UNCHANGED <<now, operations, holdings, watchlist, fundCache, selectedCode,
                   selectedSource, nextId, trade, batch, backfill, opAmountSyncKey,
                   effectsDirty, navDirty, recompute, holdingSyncKey, refresh, undone,
                   alerted, removed>>
    /\ UNCHANGED Others

addWatch ==
    /\ selectedCode # ""
    /\ ~historyOpen
    /\ selectedCode \notin watchlist
    /\ watchlist' = watchlist \cup {selectedCode}
    /\ UNCHANGED <<now, operations, holdings, fundCache, selectedCode, selectedSource,
                   historyOpen, nextId, trade, batch, backfill, opAmountSyncKey,
                   effectsDirty, navDirty, recompute, holdingSyncKey, refresh, undone,
                   alerted, removed>>
    /\ UNCHANGED Others

removeFund ==
    /\ selectedCode # ""
    /\ ~historyOpen
    /\ LET code == selectedCode
           inHoldings == FindHolding(holdings, code) # <<>>
           inWatch == code \in watchlist
           removedHolding == \/ selectedSource = "holding"
                             \/ selectedSource = "none" /\ inHoldings
           removedWatch == \/ selectedSource = "watchlist"
                           \/ selectedSource = "none" /\ ~inHoldings /\ inWatch
           stillInWatch == inWatch /\ selectedSource # "watchlist"
       IN  /\ holdings' = IF removedHolding THEN RemoveHolding(holdings, code) ELSE holdings
           /\ watchlist' = IF removedWatch THEN watchlist \ {code} ELSE watchlist
           /\ operations' = IF removedHolding
                            THEN SelectSeq(operations, LAMBDA op : op.code # code)
                            ELSE operations
           /\ fundCache' = IF stillInWatch THEN fundCache
                           ELSE [fundCache EXCEPT ![code] = Null]
    /\ selectedCode' = ""
    /\ selectedSource' = "none"
    /\ historyOpen' = FALSE
    /\ effectsDirty' = TRUE
    /\ undone' = <<>>
    /\ removed' = IF \/ selectedSource = "holding"
                     \/ selectedSource = "none" /\ FindHolding(holdings, selectedCode) # <<>>
                  THEN removed \cup {selectedCode} ELSE removed
    /\ UNCHANGED <<now, nextId, trade, batch, backfill, opAmountSyncKey, navDirty,
                   recompute, holdingSyncKey, refresh, alerted>>
    /\ UNCHANGED Others

handleUpdateHolding(form) ==
    /\ selectedCode # ""
    /\ ~historyOpen
    /\ nextId <= MaxOps
    /\ LET latestNav == fundCache[selectedCode]
           payload   == buildHoldingPayload(selectedCode, form.method, form, latestNav)
           existing  == FindHolding(holdings, selectedCode)
       IN  /\ existing # <<payload>>
           /\ holdings' = SaveHolding(holdings, payload)
           /\ operations' = RecordOperation(operations,
                                buildEditOperation(nextId, now, existing, payload))
    /\ nextId' = nextId + 1
    /\ effectsDirty' = TRUE
    /\ undone' = <<>>
    /\ removed' = removed \ {selectedCode}
    /\ UNCHANGED <<now, watchlist, fundCache, selectedCode, selectedSource,
                   historyOpen, trade, batch, backfill, opAmountSyncKey, navDirty,
                   recompute, holdingSyncKey, refresh, alerted>>
    /\ UNCHANGED Others

\* handleTradeAdd / handleTradeReduce up to `await resolveNavForOp`
TradeStart(input) ==
    /\ trade = <<>>
    /\ selectedCode # ""
    /\ ~historyOpen
    /\ nextId <= MaxOps
    /\ trade' = << [type |-> input.type, amount |-> input.amount, shares |-> input.shares,
                    code |-> selectedCode,
                    date |-> IF input.date # <<>> THEN input.date ELSE todayCn(now),
                    timing |-> input.timing,
                    prev |-> FindHolding(holdings, selectedCode),
                    latestNav |-> fundCache[selectedCode]] >>
    /\ removed' = removed \ {selectedCode}
    /\ UNCHANGED <<now, operations, holdings, watchlist, fundCache, selectedCode,
                   selectedSource, historyOpen, nextId, batch, backfill,
                   opAmountSyncKey, effectsDirty, navDirty, recompute, holdingSyncKey,
                   refresh, undone, alerted>>
    /\ UNCHANGED Others

\* the NAV a trade would settle at if a missing one were replaced by latestNav
navOrLatest(navFromTable, latestNav) ==
    IF navFromTable = Null THEN latestNav ELSE navFromTable

\* const navForTrade = navFromTable
navForTrade(navFromTable, latestNav) == navFromTable

\* the rest of handleTradeAdd / handleTradeReduce, and handleTrade
TradeFinish ==
    /\ trade # <<>>
    /\ trade' = <<>>
    /\ LET t == trade[1]
           nav == navForTrade(resolveNavForOp(t.code, t.date, t.timing), t.latestNav)
           out == TradeOutcome(nextId, now, t.code, t.type, t.prev, t.latestNav,
                    [amount |-> IF t.type = "add" THEN t.amount
                                ELSE IF Truthy(nav) THEN SharesTimesNav(t.shares, nav)
                                ELSE Null,
                     shares |-> IF t.type = "add" THEN AmountOverNav(t.amount, nav)
                                ELSE t.shares,
                     feeRate |-> Null, fee |-> Null, nav |-> nav, tradeNav |-> nav,
                     date |-> t.date, timing |-> t.timing,
                     isQdii |-> isQdiiFund(t.code)])
       IN  IF nav = Null \/ out.skip
           THEN /\ alerted' = IF nav = Null THEN alerted \cup {t.type} ELSE alerted
                /\ UNCHANGED <<operations, holdings, nextId, effectsDirty, undone>>
           ELSE /\ nextId <= MaxOps
                /\ holdings' = IF out.next # <<>> THEN SaveHolding(holdings, out.next[1])
                               ELSE RemoveHolding(holdings, t.code)
                /\ operations' = RecordOperation(operations, out.op)
                /\ nextId' = nextId + 1
                /\ effectsDirty' = TRUE
                /\ undone' = <<>>
                /\ UNCHANGED alerted
    /\ UNCHANGED <<now, watchlist, fundCache, selectedCode, selectedSource,
                   historyOpen, batch, backfill, opAmountSyncKey, navDirty, recompute,
                   holdingSyncKey, refresh, removed>>
    /\ UNCHANGED Others

\* the running Holding each item's operation is built from, were it never advanced
tempHoldingAtStart(b) == b.start

\* tempHolding: the running Holding each item's operation is built from
tempHolding(b) == b.temp

\* applyBatchImport up to its first `await resolveNavForOp`; `start` keeps what
\* tempHolding was initialised with
BatchStart(items) ==
    /\ batch = <<>>
    /\ selectedCode # ""
    /\ ~historyOpen
    /\ nextId <= MaxOps
    /\ batch' = << [code |-> selectedCode, sorted |-> SortByDate(items), idx |-> 1,
                    temp |-> FindHolding(holdings, selectedCode),
                    start |-> FindHolding(holdings, selectedCode),
                    latestNav |-> fundCache[selectedCode], newOps |-> <<>>] >>
    /\ removed' = removed \ {selectedCode}
    /\ UNCHANGED <<now, operations, holdings, watchlist, fundCache, selectedCode,
                   selectedSource, historyOpen, nextId, trade, backfill,
                   opAmountSyncKey, effectsDirty, navDirty, recompute, holdingSyncKey,
                   refresh, undone, alerted>>
    /\ UNCHANGED Others

\* one iteration of applyBatchImport's loop after its await; after the last
\* item, the commit
BatchStep ==
    /\ batch # <<>>
    /\ LET b == batch[1]
           item == b.sorted[b.idx]
           nav == resolveNavForOp(b.code, item.date, item.timing)
           amount == IF item.amount = Null /\ item.shares # Null /\ Truthy(nav)
                     THEN SharesTimesNav(item.shares, nav) ELSE item.amount
           shares == IF item.shares = Null /\ item.amount # Null /\ Truthy(nav)
                     THEN AmountOverNav(item.amount, nav) ELSE item.shares
           out == TradeOutcome(nextId, now, b.code, item.type, tempHolding(b), b.latestNav,
                    [amount |-> amount, shares |-> shares, feeRate |-> Null, fee |-> 0,
                     nav |-> nav, tradeNav |-> nav, date |-> item.date,
                     timing |-> item.timing, isQdii |-> isQdiiFund(b.code)])
           made == Truthy(nav) /\ ~(amount = Null /\ shares = Null) /\ ~out.skip
           newOps == IF made THEN Append(b.newOps, out.op) ELSE b.newOps
           temp == IF made THEN out.next ELSE tempHolding(b)
       IN  /\ made => nextId <= MaxOps
           /\ nextId' = IF made THEN nextId + 1 ELSE nextId
           /\ IF b.idx < Len(b.sorted)
              THEN /\ batch' = << [b EXCEPT !.idx = b.idx + 1, !.newOps = newOps,
                                            !.temp = temp] >>
                   /\ UNCHANGED <<holdings, operations, effectsDirty, undone>>
              ELSE /\ batch' = <<>>
                   /\ IF newOps = <<>>
                      THEN UNCHANGED <<holdings, operations, effectsDirty, undone>>
                      ELSE /\ holdings' = IF temp # <<>>
                                          THEN Append(RemoveHolding(holdings, b.code), temp[1])
                                          ELSE RemoveHolding(holdings, b.code)
                           /\ operations' = Truncate(newOps \o operations)
                           /\ effectsDirty' = TRUE
                           /\ undone' = <<>>
    /\ UNCHANGED <<now, watchlist, fundCache, selectedCode, selectedSource,
                   historyOpen, trade, backfill, opAmountSyncKey, navDirty, recompute,
                   holdingSyncKey, refresh, alerted, removed>>
    /\ UNCHANGED Others

handleUndoOperation(operationId) ==
    /\ selectedCode # ""
    /\ historyOpen
    /\ \E i \in 1..Len(operations) :
         /\ operations[i].id = operationId
         /\ operations[i].code = selectedCode
         /\ holdings' = IF operations[i].prev # <<>>
                        THEN SaveHolding(holdings, operations[i].prev[1])
                        ELSE RemoveHolding(holdings, operations[i].code)
         /\ undone' = << [code |-> operations[i].code, prev |-> operations[i].prev,
                           latest |-> \A j \in 1..(i - 1) :
                                         operations[j].code # operations[i].code,
                           stage |-> "undone"] >>
    /\ operations' = SelectSeq(operations, LAMBDA item : item.id # operationId)
    /\ effectsDirty' = TRUE
    /\ UNCHANGED <<now, watchlist, fundCache, selectedCode, selectedSource,
                   historyOpen, nextId, trade, batch, backfill, opAmountSyncKey,
                   navDirty, recompute, holdingSyncKey, refresh, alerted, removed>>
    /\ UNCHANGED Others

\* operations.filter((op) => op.code === code && op.date)
Related(ops, code) == SelectSeq(ops, LAMBDA op : op.code = code /\ op.date # <<>>)

\* the key of refreshOperationAmounts: id:type:date:timing:amount:shares of each
SyncKey(related) ==
    [i \in 1..Len(related) |->
        <<related[i].id, related[i].type, related[i].date, related[i].timing,
          related[i].amount, related[i].shares>>]

\* { ...op, ...updates } for the NAV the pass resolved; op itself when no updates
Patched(op, nav) ==
    LET withNav == IF op.nav # nav THEN [op EXCEPT !.nav = nav] ELSE op
    IN  IF nav = Null THEN op
        ELSE IF op.type = "reduce"
        THEN IF op.shares # Null
             THEN IF op.amount # SharesTimesNav(op.shares, nav)
                  THEN [withNav EXCEPT !.amount = SharesTimesNav(op.shares, nav)]
                  ELSE withNav
             ELSE IF op.amount # Null /\ op.shares # AmountOverNav(op.amount, nav)
                  THEN [withNav EXCEPT !.shares = AmountOverNav(op.amount, nav)]
                  ELSE withNav
        ELSE IF op.type = "add"
        THEN IF op.amount # Null /\ op.shares = Null
             THEN [withNav EXCEPT !.shares = AmountOverNav(op.amount, nav)]
             ELSE IF op.shares # Null /\ op.amount = Null
                  THEN [withNav EXCEPT !.amount = SharesTimesNav(op.shares, nav)]
                  ELSE withNav
        ELSE withNav

\* Date.now() counts milliseconds, finer than the model's hour: operations
\* recorded one after the other carry increasing createdAt
Stamped(ops) ==
    [i \in 1..Len(ops) |-> [ops[i] EXCEPT !.createdAt = @ * 1000 + ops[i].id]]

\* buildHoldingSyncKey(ops, latestNav)
buildHoldingSyncKey(ops, latestNav) == <<SyncKey(ops), latestNav>>

\* what resolveNavForOp yields for each key the fold of ops awaits
NavsOf(code, ops) ==
    [k \in { NavKeyOf(ops[i]) : i \in 1..Len(ops) } |-> resolveNavForOp(code, k[1], k[2])]

\* an updater that adds the Holding without taking the fund's old one out
applyHoldingUpdateKeepOld(list, nextHolding) ==
    IF FindHolding(list, nextHolding.code) = <<nextHolding>> THEN list
    ELSE Append(list, nextHolding)

\* the body of applyHoldingUpdate's setHoldings updater
applyHoldingUpdate(list, nextHolding) ==
    IF FindHolding(list, nextHolding.code) = <<nextHolding>> THEN list
    ELSE Append(RemoveHolding(list, nextHolding.code), nextHolding)

\* The NAV backfill effect alone (the reconciliation effect, which writes
\* holdings only, is left to FlushAllEffects): the [operations, selectedCode]
\* effect re-runs after a commit that changed
\* either: the previous run's cleanup sets `cancelled`, then the body starts a
\* new pass up to its first await.  React runs passive effects after the
\* commit, so other callbacks may run between the change and this step.
FlushEffects ==
    /\ effectsDirty
    /\ effectsDirty' = FALSE
    /\ LET related == Related(operations, selectedCode)
           starts == /\ selectedCode # ""
                     /\ operations # <<>>
                     /\ historyOpen
                     /\ related # <<>>
                     /\ opAmountSyncKey # SyncKey(related)
       IN  IF starts
           THEN /\ opAmountSyncKey' = SyncKey(related)
                /\ backfill' = << [code |-> selectedCode, related |-> related] >>
           ELSE /\ backfill' = <<>>
                /\ UNCHANGED opAmountSyncKey
    /\ UNCHANGED <<now, operations, holdings, watchlist, fundCache, selectedCode,
                   selectedSource, historyOpen, nextId, trade, batch, navDirty,
                   recompute, holdingSyncKey, refresh, undone, alerted, removed>>
    /\ UNCHANGED Others

\* The effects re-run after a commit that changed their dependencies: the
\* NAV backfill effect on [operations, selectedCode], the reconciliation
\* effect on these and on selectedLatestNav.  The cleanups of the effects
\* that re-run set `cancelled` on their passes and clear recalculatingRef;
\* then the backfill effect's body runs, then the reconciliation effect's,
\* each up to its first await.  recalculatingRef is set when the reconciliation
\* body reads it if the backfill body has just started a pass, or if only
\* selectedLatestNav changed while a backfill pass is in flight.  React runs
\* passive effects after the commit, so other callbacks may run between the
\* change and this step.
FlushAllEffects ==
    /\ effectsDirty \/ navDirty
    /\ effectsDirty' = FALSE
    /\ navDirty' = FALSE
    /\ LET related == Related(operations, selectedCode)
           backfillStarts == /\ effectsDirty
                             /\ selectedCode # ""
                             /\ operations # <<>>
                             /\ historyOpen
                             /\ related # <<>>
                             /\ opAmountSyncKey # SyncKey(related)
           recalculating == IF effectsDirty THEN backfillStarts ELSE backfill # <<>>
           latestNav == fundCache[selectedCode]
           key == buildHoldingSyncKey(related, latestNav)
           reconciles == /\ selectedCode # ""
                         /\ operations # <<>>
                         /\ ~recalculating
                         /\ related # <<>>
                         /\ holdingSyncKey[selectedCode] # <<key>>
       IN  /\ IF backfillStarts
              THEN /\ opAmountSyncKey' = SyncKey(related)
                   /\ backfill' = << [code |-> selectedCode, related |-> related] >>
              ELSE /\ backfill' = IF effectsDirty THEN <<>> ELSE backfill
                   /\ UNCHANGED opAmountSyncKey
           /\ IF reconciles
              THEN /\ holdingSyncKey' = [holdingSyncKey EXCEPT ![selectedCode] = <<key>>]
                   /\ recompute' = << [code |-> selectedCode, ops |-> related,
                                       latestNav |-> latestNav] >>
                   /\ undone' = IF undone # <<>> /\ undone[1].code = selectedCode
                                THEN << [undone[1] EXCEPT !.stage = "reconciling"] >>
                                ELSE undone
              ELSE /\ recompute' = <<>>
                   /\ UNCHANGED <<holdingSyncKey, undone>>
    /\ UNCHANGED <<now, operations, holdings, watchlist, fundCache, selectedCode,
                   selectedSource, historyOpen, nextId, trade, batch, refresh, alerted,
                   removed>>
    /\ UNCHANGED Others

\* recomputeHoldingsFromOperations from its await to its end, `cancelled` unset
RecomputeFinish ==
    /\ recompute # <<>>
    /\ recompute' = <<>>
    /\ LET p == recompute[1]
           nextHolding == computeHoldingFromOperations(p.code, Stamped(p.ops), p.latestNav,
                                                       NavsOf(p.code, p.ops))
       IN  /\ holdings' = IF nextHolding # <<>>
                          THEN applyHoldingUpdate(holdings, nextHolding[1])
                          ELSE holdings
           /\ undone' = IF undone # <<>> /\ undone[1].code = p.code
                                        /\ undone[1].stage = "reconciling"
                        THEN << [undone[1] EXCEPT !.stage = "reconciled"] >>
                        ELSE undone
    /\ UNCHANGED <<now, operations, watchlist, fundCache, selectedCode, selectedSource,
                   historyOpen, nextId, trade, batch, backfill, opAmountSyncKey,
                   effectsDirty, navDirty, holdingSyncKey, refresh, alerted, removed>>
    /\ UNCHANGED Others

\* refreshOperationAmounts from its awaits to its write-back, `cancelled` unset
BackfillFinish ==
    /\ backfill # <<>>
    /\ backfill' = <<>>
    /\ LET p == backfill[1]
           next(op) == Patched(op, resolveNavForOp(p.code, op.date, TimingOf(op)))
           nextById == { i \in 1..Len(p.related) : next(p.related[i]) # p.related[i] }
           updated(op) ==
               IF \E i \in nextById : p.related[i].id = op.id
               THEN next(p.related[CHOOSE i \in nextById : p.related[i].id = op.id])
               ELSE op
       IN  IF nextById = {}
           THEN UNCHANGED <<operations, effectsDirty>>
           ELSE /\ operations' = [i \in 1..Len(operations) |-> updated(operations[i])]
                /\ effectsDirty' = TRUE
    /\ UNCHANGED <<now, holdings, watchlist, fundCache, selectedCode, selectedSource,
                   historyOpen, nextId, trade, batch, opAmountSyncKey, navDirty,
                   recompute, holdingSyncKey, refresh, undone, alerted, removed>>
    /\ UNCHANGED Others

\* no effect of an earlier render is waiting to run
Flushed == ~effectsDirty /\ ~navDirty

\* a session in one fund's modal: trades against the clock, the status poll
\* and the NAV backfill; the user submits one form (edit, trade, import) at a
\* time and may undo at any time.  React flushes the effects of a render
\* before it handles the user's next click; the poll's timer and the
\* resumption of an awaiting pass may come before the flush.
StatusNext ==
    \/ Tick
    \/ updateStatus
    \/ Flushed /\ \E code \in Codes : openModal(code, "")
    \/ Flushed /\ onHistoryOpenChange
    \/ Flushed /\ trade = <<>> /\ batch = <<>> /\ \E form \in FormPayloads : handleUpdateHolding(form)
    \/ Flushed /\ trade = <<>> /\ batch = <<>> /\ \E input \in TradeInputs : TradeStart(input)
    \/ TradeFinish
    \/ Flushed /\ trade = <<>> /\ batch = <<>> /\ \E items \in BatchInputs : BatchStart(items)
    \/ BatchStep
    \/ Flushed /\ \E id \in 1..MaxOps : handleUndoOperation(id)
    \/ FlushEffects
    \/ BackfillFinish

StatusSpec == AppInit /\ [][StatusNext]_vars

\* the poll runs every minute for as long as the page is open
LiveSpec == StatusSpec /\ WF_vars(updateStatus)

InLedger(id) == \E i \in 1..Len(operations) : operations[i].id = id

OpOf(id) == operations[CHOOSE i \in 1..Len(operations) : operations[i].id = id]

\* C2: an operation that is confirmed and stays in the ledger is confirmed in
\* the next state, whichever of the poll, the backfill, a trade, an import or an
\* undo takes the step.
C2_ConfirmedStaysConfirmed ==
    [][\A i \in 1..Len(operations) : \A j \in 1..Len(operations') :
          (operations[i].id = operations'[j].id /\ operations[i].status = "confirmed")
             => operations'[j].status = "confirmed"]_vars

\* the poll's whole effect: the status of pending operations that are due
PollFrame ==
    /\ Len(operations') = Len(operations)
    /\ \A i \in 1..Len(operations) :
          operations'[i] =
             IF operations[i].status = "pending" /\ now >= operations[i].applyAt
             THEN [operations[i] EXCEPT !.status = "confirmed"]
             ELSE operations[i]
    /\ UNCHANGED <<now, holdings, nextId, trade, batch, backfill>>

\* C3: with the poll running fairly, a pending operation whose applyAt has
\* passed and that stays in the ledger becomes confirmed; a poll step changes
\* only the status of pending operations whose applyAt has passed.
C3_PollConfirmsDueOperations ==
    /\ \A id \in 1..MaxOps :
          (InLedger(id) /\ OpOf(id).status = "pending" /\ now >= OpOf(id).applyAt)
             ~> (~InLedger(id) \/ OpOf(id).status = "confirmed")
    /\ [][updateStatus => PollFrame]_vars

\* an operation born pending has been confirmed by the poll
C3_Witness ==
    \E i \in 1..Len(operations) :
       /\ operations[i].status = "confirmed"
       /\ operations[i].createdAt < operations[i].applyAt
       /\ operations[i].applyAt <= now

\* the status every operation entering the ledger is created with
CreationRule ==
    \A j \in 1..Len(operations') :
       (\A i \in 1..Len(operations) : operations[i].id # operations'[j].id) =>
          LET op == operations'[j]
          IN  /\ op.type = "edit" => op.status = "confirmed" /\ op.applyAt = op.createdAt
              /\ op.status = (IF op.createdAt >= op.applyAt THEN "confirmed" ELSE "pending")
              /\ op.createdAt <= now

\* C4: an operation enters the ledger confirmed exactly when its creation
\* instant is at or past its applyAt, an edit with applyAt = createdAt; and
\* every confirmed operation of the ledger has applyAt <= now.
C4_StatusFollowsClock ==
    /\ [](\A i \in 1..Len(operations) :
            operations[i].status = "confirmed" => operations[i].applyAt <= now)
    /\ [][CreationRule]_vars

\* a backdated trade born confirmed next to a trade born pending
C4_Witness ==
    \E i \in 1..Len(operations) : \E j \in 1..Len(operations) :
       /\ operations[i].type # "edit" /\ operations[i].status = "confirmed"
       /\ operations[i].createdAt > operations[i].applyAt
       /\ operations[j].status = "pending" /\ operations[j].createdAt < operations[j].applyAt

\* C5 as stated: every operation of the ledger has applyAt >= createdAt.
C5_ApplyAtNotBeforeCreatedAt ==
    \A i \in 1..Len(operations) : operations[i].applyAt >= operations[i].createdAt

\* C5 amended: an edit has applyAt = createdAt, and a trade or batch item
\* whose order date is the day it is recorded or a later day has
\* applyAt >= createdAt.
C5_ApplyAtNotBeforeCreatedAtUnlessBackdated ==
    \A i \in 1..Len(operations) :
       LET op == operations[i]
       IN  /\ op.type = "edit" => op.applyAt = op.createdAt
           /\ (op.type # "edit" /\ ~DateLess(op.date, todayCn(op.createdAt)))
                 => op.applyAt >= op.createdAt

\* a trade dated the day it was recorded is in the ledger next to an edit
C5_Witness ==
    /\ \E i \in 1..Len(operations) :
          /\ operations[i].type # "edit"
          /\ operations[i].date = todayCn(operations[i].createdAt)
          /\ operations[i].applyAt > operations[i].createdAt
    /\ \E i \in 1..Len(operations) : operations[i].type = "edit"

-----------------------------------------------------------------------------
(* The ledger at its cap (LedgerSpec): the session starts from a stored     *)
(* ledger that is full, holding another fund's operations.                  *)

StoredOp(i) ==
    [id |-> 0 - i, code |-> "F0", type |-> "add", status |-> "confirmed",
     createdAt |-> 0, applyAt |-> 0, method |-> "amount", amount |-> 10000,
     shares |-> 10000, nav |-> 10000, feeRate |-> Null, fee |-> 0,
     date |-> <<2024, 1, 2>>, timing |-> "before", isQdii |-> FALSE,
     prev |-> <<>>, next |-> <<>>]

StoredLedger(n) == [i \in 1..n |-> StoredOp(i)]

LedgerInit == AppStart(StoredLedger(MaxLedger))

\* recordOperation, batch-import commits, undo and fund removal, from the
\* fund's modal, opened from its holding card or from a search result; the
\* user submits one form (edit, trade, import) at a time
LedgerNext ==
    \/ \E code \in Codes, source \in {"holding", ""} : openModal(code, source)
    \/ \E code \in Codes : ensureFundData(code)
    \/ closeModal
    \/ onHistoryOpenChange
    \/ removeFund
    \/ trade = <<>> /\ batch = <<>> /\ \E form \in FormPayloads : handleUpdateHolding(form)
    \/ trade = <<>> /\ batch = <<>> /\ \E input \in TradeInputs : TradeStart(input)
    \/ TradeFinish
    \/ trade = <<>> /\ batch = <<>> /\ \E items \in BatchInputs : BatchStart(items)
    \/ BatchStep
    \/ \E id \in 1..MaxOps : handleUndoOperation(id)

LedgerSpec == LedgerInit /\ [][LedgerNext]_vars

\* a step of recordOperation: an edit or a single trade recording its operation
RecordStep ==
    /\ TradeFinish \/ \E form \in FormPayloads : handleUpdateHolding(form)
    /\ nextId' # nextId

\* C1: the ledger never holds more than 200 operations; recordOperation on a
\* ledger of exactly 200 puts the new operation at the head and drops exactly
\* the last entry, the other 199 keeping their order.
C1_LedgerCap ==
    /\ [](Len(operations) <= MaxLedger)
    /\ [][(RecordStep /\ Len(operations) = MaxLedger) =>
            /\ Len(operations') = MaxLedger
            /\ operations'[1].id = nextId
            /\ \A i \in 1..(MaxLedger - 1) : operations'[i + 1] = operations[i]]_vars

\* a full ledger whose newest MaxOps entries were recorded in this session:
\* the stored entries they pushed past the cap are gone
C1_Witness ==
    /\ Len(operations) = MaxLedger
    /\ operations[MaxOps].id >= 1
    /\ operations[MaxLedger].id = 0 - (MaxLedger - MaxOps)

\* refreshData up to `await Promise.all(...)`: the closure keeps the render's
\* holdings, operations and fundCache
refreshDataStart ==
    /\ refresh = <<>>
    /\ holdings # <<>> \/ watchlist # {}
    /\ refresh' = << [pc |-> "fetching", holdings |-> holdings, operations |-> operations,
                      updates |-> <<>>, closed |-> {}] >>
    /\ UNCHANGED <<now, operations, holdings, watchlist, fundCache, selectedCode,
                   selectedSource, historyOpen, nextId, trade, batch, backfill,
                   opAmountSyncKey, effectsDirty, navDirty, recompute, holdingSyncKey,
                   undone, alerted, removed>>
    /\ UNCHANGED Others

\* refreshData after the fund data arrived: setFundCache, then for each held
\* fund the key check and the reconciliation of the closure's operations
refreshDataFetched ==
    /\ refresh # <<>>
    /\ refresh[1].pc = "fetching"
    /\ \E nav \in LatestNavs :
         LET r == refresh[1]
             codes == { r.holdings[i].code : i \in 1..Len(r.holdings) } \cup watchlist
             ops(c) == Related(r.operations, c)
             key(c) == buildHoldingSyncKey(ops(c), nav)
             passes == IF r.operations # <<>> /\ r.holdings # <<>>
                       THEN { c \in Codes : /\ FindHolding(r.holdings, c) # <<>>
                                            /\ ops(c) # <<>>
                                            /\ holdingSyncKey[c] # <<key(c)>> }
                       ELSE {}
             result(c) == computeHoldingFromOperations(c, Stamped(ops(c)), nav,
                                                       NavsOf(c, ops(c)))
         IN  /\ fundCache' = [c \in Codes |-> IF c \in codes THEN nav ELSE fundCache[c]]
             /\ navDirty' = (navDirty \/ (selectedCode \in codes
                                          /\ fundCache[selectedCode] # nav))
             /\ holdingSyncKey' = [c \in Codes |-> IF c \in passes THEN <<key(c)>>
                                                  ELSE holdingSyncKey[c]]
             /\ refresh' = << [r EXCEPT !.pc = "computed",
                                 !.updates = [c \in { d \in passes : result(d) # <<>> }
                                                |-> result(c)[1]],
                                 !.closed = { c \in passes : result(c) = <<>> }] >>
    /\ UNCHANGED <<now, operations, holdings, watchlist, selectedCode, selectedSource,
                   historyOpen, nextId, trade, batch, backfill, opAmountSyncKey,
                   effectsDirty, recompute, undone, alerted, removed>>
    /\ UNCHANGED Others

\* the end of refreshData: setHoldings with the updates, refreshPendingRef reset
refreshDataFinish ==
    /\ refresh # <<>>
    /\ refresh[1].pc = "computed"
    /\ refresh' = <<>>
    /\ holdings' = [i \in 1..Len(holdings) |->
                      IF holdings[i].code \in DOMAIN refresh[1].updates
                      THEN refresh[1].updates[holdings[i].code] ELSE holdings[i]]
    /\ UNCHANGED <<now, operations, watchlist, fundCache, selectedCode, selectedSource,
                   historyOpen, nextId, trade, batch, backfill, opAmountSyncKey,
                   effectsDirty, navDirty, recompute, holdingSyncKey, undone, alerted,
                   removed>>
    /\ UNCHANGED Others

\* a session in one fund's modal with both effects and the refresh: edits,
\* trades and undo at one instant, one form at a time.  React flushes the
\* effects of a render before it starts the next update, so what the user
\* does next comes after the flush, and so does the resumption of a pass that
\* was awaiting when the user acted.
SyncNext ==
    \/ Flushed /\ \E code \in Codes : openModal(code, "")
    \/ Flushed /\ onHistoryOpenChange
    \/ Flushed /\ trade = <<>> /\ \E form \in FormPayloads : handleUpdateHolding(form)
    \/ Flushed /\ trade = <<>> /\ \E input \in TradeInputs : TradeStart(input)
    \/ TradeFinish
    \/ Flushed /\ \E id \in 1..MaxOps : handleUndoOperation(id)
    \/ FlushAllEffects
    \/ Flushed /\ BackfillFinish
    \/ Flushed /\ RecomputeFinish
    \/ Flushed /\ refreshDataStart
    \/ refreshDataFetched
    \/ refreshDataFinish

SyncSpec == AppInit /\ [][SyncNext]_vars

\* what the reconciliation pass in flight will return
PassResult ==
    computeHoldingFromOperations(recompute[1].code, Stamped(recompute[1].ops),
                                 recompute[1].latestNav,
                                 NavsOf(recompute[1].code, recompute[1].ops))

\* C17: when a reconciliation pass for a fund returns null (running shares
\* <= 0), the fund has no Holding once the pass has ended, in the reactive
\* pass and in the refreshData pass alike.
C17_NullReconcileDeletesHolding ==
    [][/\ (recompute # <<>> /\ PassResult = <<>> /\ RecomputeFinish)
          => FindHolding(holdings', recompute[1].code) = <<>>
       /\ (refresh # <<>> /\ refresh[1].pc = "computed" /\ refreshDataFinish)
          => \A c \in refresh[1].closed : FindHolding(holdings', c) = <<>>]_vars

\* C18: undoing the most recently recorded operation of a fund leaves the
\* fund's Holding equal to the operation's prev snapshot (none when prev is
\* null), removes that operation alone from the ledger, keeps the others in
\* order and leaves the other funds' Holdings alone; and the Holding still
\* equals prev when the reconciliation that the ledger change triggered ends.
C18_UndoRestoresPrev ==
    [][/\ \A id \in 1..MaxOps :
            (handleUndoOperation(id) /\ undone'[1].latest)
            => /\ FindHolding(holdings', undone'[1].code) = undone'[1].prev
               /\ operations' = SelectSeq(operations, LAMBDA op : op.id # id)
               /\ \A c \in Codes \ {undone'[1].code} :
                     FindHolding(holdings', c) = FindHolding(holdings, c)
       /\ (/\ undone # <<>> /\ undone' # <<>>
           /\ undone[1].latest
           /\ undone[1].stage = "reconciling" /\ undone'[1].stage = "reconciled")
          => FindHolding(holdings', undone[1].code) = undone[1].prev]_vars

-----------------------------------------------------------------------------
(* Batch import in a session: the import dialog's items next to the edits, *)
(* trades and undo that write the same Holding and ledger.  The effects    *)
(* write neither while an import runs and are left to SyncSpec.            *)

ImportEarly ==
    [type |-> "add", amount |-> 5000, shares |-> Null, date |-> <<2024, 2, 26>>,
     timing |-> "before"]

\* an item dated after the newest NAV the data source has
ImportUnpriced ==
    [type |-> "add", amount |-> 5000, shares |-> Null, date |-> <<2024, 3, 4>>,
     timing |-> "before"]

ImportInputs ==
    { <<BatchAdd, BatchReduce>>, <<BatchReduce, BatchAdd>>, <<BatchAdd, ImportUnpriced>>,
      <<ImportUnpriced>>, <<BatchReduce, BatchAdd, ImportEarly>> }

ImportNext ==
    \/ \E code \in Codes : openModal(code, "")
    \/ onHistoryOpenChange
    \/ trade = <<>> /\ \E form \in FormPayloads : handleUpdateHolding(form)
    \/ trade = <<>> /\ \E input \in TradeInputs : TradeStart(input)
    \/ TradeFinish
    \/ batch = <<>> /\ \E items \in ImportInputs : BatchStart(items)
    \/ BatchStep
    \/ \E id \in 1..MaxOps : handleUndoOperation(id)

ImportSpec == AppInit /\ [][ImportNext]_vars

\* the operations a step put at the front of the ledger
Produced == SubSeq(operations', 1, Len(operations') - Len(operations))

\* C19: batch import is atomic and chained.  While an import is between its
\* awaits it writes neither the holdings nor the ledger; its last step writes
\* both at once or neither: the operations it produced go to the front of the
\* ledger in order, the first one's prev is the fund's Holding when the import
\* started, each later one's prev is the next of the one before it, and the
\* fund's Holding becomes the last one's next (none when that is null), the
\* other funds' Holdings staying as they were.
C19_BatchAtomicChained ==
    [][(batch # <<>> /\ batch' # batch) =>
         IF batch' # <<>>
         THEN holdings' = holdings /\ operations' = operations
         ELSE LET b == batch[1]
                  n == Len(operations') - Len(operations)
              IN  /\ n >= 0
                  /\ SubSeq(operations', n + 1, Len(operations')) = operations
                  /\ n = 0 => holdings' = holdings
                  /\ n > 0 =>
                        /\ Produced[1].prev = b.start
                        /\ \A i \in 2..n : Produced[i].prev = Produced[i - 1].next
                        /\ \A i \in 1..n : Produced[i].code = b.code
                        /\ FindHolding(holdings', b.code) = Produced[n].next
                        /\ \A c \in Codes \ {b.code} :
                              FindHolding(holdings', c) = FindHolding(holdings, c)]_vars

\* an import has just committed two operations into an empty position: an add
\* and the reduce chained on it, ahead of nothing else in the ledger
C19_Witness ==
    /\ batch = <<>>
    /\ Len(operations) = 2
    /\ operations[1].id = 1 /\ operations[2].id = 2
    /\ operations[1].type = "add" /\ operations[2].type = "reduce"
    /\ operations[1].prev = <<>>
    /\ operations[1].next # <<>>
    /\ operations[2].prev = operations[1].next
    /\ operations[2].next # <<>>
    /\ FindHolding(holdings, operations[2].code) = operations[2].next

-----------------------------------------------------------------------------
(* The trade forms across the days of the clock: a trade dated today finds  *)
(* no NAV once today is past the data source's newest row.                  *)

\* what the trade forms can hold when submitted (date '' is today)
OrderInputs ==
    { [type |-> "add", amount |-> 10000, shares |-> Null, date |-> <<>>,
       timing |-> "before"],
      [type |-> "add", amount |-> 10000, shares |-> Null, date |-> <<2024, 2, 26>>,
       timing |-> "before"],
      [type |-> "reduce", amount |-> Null, shares |-> 5000, date |-> <<>>,
       timing |-> "after"],
      [type |-> "reduce", amount |-> Null, shares |-> 5000, date |-> <<2024, 2, 27>>,
       timing |-> "before"] }

TradeNext ==
    \/ Tick
    \/ \E code \in Codes : openModal(code, "")
    \/ onHistoryOpenChange
    \/ trade = <<>> /\ \E form \in FormPayloads : handleUpdateHolding(form)
    \/ trade = <<>> /\ \E input \in OrderInputs : TradeStart(input)
    \/ TradeFinish
    \/ \E id \in 1..MaxOps : handleUndoOperation(id)

TradeSpec == AppInit /\ [][TradeNext]_vars

\* C20: a trade whose NAV resolves to null is blocked.  When handleTradeAdd or
\* handleTradeReduce resumes from resolveNavForOp with null, the holdings and
\* the ledger stay exactly as they were, whatever latestNav is, and the "no
\* NAV" alert of that form is shown.
C20_NullNavTradeBlocked ==
    [][(/\ trade # <<>>
        /\ trade' = <<>>
        /\ resolveNavForOp(trade[1].code, trade[1].date, trade[1].timing) = Null)
       => /\ holdings' = holdings
          /\ operations' = operations
          /\ trade[1].type \in alerted']_vars

\* an add and a reduce have both been blocked for a fund that has a Holding
\* and a latestNav
C20_Witness ==
    /\ alerted = {"add", "reduce"}
    /\ trade = <<>>
    /\ selectedCode # ""
    /\ fundCache[selectedCode] # Null
    /\ FindHolding(holdings, selectedCode) # <<>>

-----------------------------------------------------------------------------
(* The order of the fold in a session.                                      *)

\* the order in which computeHoldingFromOperations folds a fund's operations
FoldOrder(ledger, code) == SortOps(Stamped(Related(ledger, code)))

\* the place of an operation in a sequence of operations
PlaceOf(seq, id) == CHOOSE k \in 1..Len(seq) : seq[k].id = id

HasOp(ledger, id) == \E k \in 1..Len(ledger) : ledger[k].id = id

\* C25: the fold takes same-date operations of a fund in the order they were
\* inserted into the ledger.  Whenever a step inserts operations, every
\* operation of the same fund and date that was in the ledger before is folded
\* before every operation the step inserted.
C25_FoldsInInsertionOrder ==
    [][\A i \in 1..Len(operations') : \A j \in 1..Len(operations) :
          (/\ ~HasOp(operations, operations'[i].id)
           /\ HasOp(operations', operations[j].id)
           /\ operations'[i].code = operations[j].code
           /\ operations'[i].date = operations[j].date)
          => PlaceOf(FoldOrder(operations', operations[j].code), operations[j].id)
               < PlaceOf(FoldOrder(operations', operations[j].code), operations'[i].id)]_vars

-----------------------------------------------------------------------------
(* Removing a fund while an import, a reconciliation, a backfill or a       *)
(* refresh of it is in flight.  A click's update is rendered and its        *)
(* effects flushed before any pass resumes, so the passes of the two        *)
(* effects resume in flushed states.                                        *)

RemovalNext ==
    \/ Flushed /\ \E code \in Codes : openModal(code, "")
    \/ Flushed /\ onHistoryOpenChange
    \/ Flushed /\ \E form \in FormPayloads : handleUpdateHolding(form)
    \/ Flushed /\ batch = <<>> /\ \E items \in BatchInputs : BatchStart(items)
    \/ BatchStep
    \/ Flushed /\ removeFund
    \/ FlushAllEffects
    \/ Flushed /\ BackfillFinish
    \/ Flushed /\ RecomputeFinish
    \/ Flushed /\ refreshDataStart
    \/ refreshDataFetched
    \/ refreshDataFinish

RemovalSpec == AppInit /\ [][RemovalNext]_vars

\* C23: removing a fund's Holding purges the fund's operations and leaves the
\* other funds' operations as they were; from then on, whatever pass was in
\* flight completes, the fund has no Holding and the ledger no operation of
\* it, until the user starts a new operation for it.
C23_RemovedStaysRemoved ==
    /\ [][(removed' # removed /\ removed \subseteq removed')
          => \A c \in removed' \ removed :
                /\ FindHolding(holdings', c) = <<>>
                /\ operations' = SelectSeq(operations, LAMBDA op : op.code # c)]_vars
    /\ [](\A c \in removed :
            /\ FindHolding(holdings, c) = <<>>
            /\ \A i \in 1..Len(operations) : operations[i].code # c)

\* C30: no committed trade is lost to a concurrent import.  The first
\* operation an import commits is chained on the fund's Holding as it is at
\* the commit, which is the next of the operation recorded last, so a trade,
\* an edit or an undo committed while the import was awaiting is still in
\* the chain of prev and next and in the Holding the import leaves.
C30_NoTradeLostToImport ==
    [][(batch # <<>> /\ batch' = <<>> /\ Len(operations') > Len(operations))
         => Produced[1].prev = FindHolding(holdings, batch[1].code)]_vars

(***************************************************************************)
(* Every writer of the holdings list together: the edit form, a trade, an  *)
(* import, an undo, a removal, the reconciliation pass and a refresh.  The  *)
(* user starts one thing at a time; the reconciliation pass of the effect  *)
(* runs alongside whatever the user started.                               *)
(***************************************************************************)

\* no trade, import or refresh is between its awaits
Quiet == trade = <<>> /\ batch = <<>> /\ refresh = <<>>

HoldingsNext ==
    \/ Flushed /\ \E code \in Codes : openModal(code, "")
    \/ Flushed /\ onHistoryOpenChange
    \/ Flushed /\ Quiet /\ \E form \in FormPayloads : handleUpdateHolding(form)
    \/ Flushed /\ Quiet /\ \E input \in TradeInputs : TradeStart(input)
    \/ TradeFinish
    \/ Flushed /\ Quiet /\ \E items \in BatchInputs : BatchStart(items)
    \/ BatchStep
    \/ Flushed /\ Quiet /\ \E id \in 1..MaxOps : handleUndoOperation(id)
    \/ Flushed /\ Quiet /\ removeFund
    \/ FlushAllEffects
    \/ Flushed /\ RecomputeFinish
    \/ Flushed /\ Quiet /\ refreshDataStart
    \/ refreshDataFetched
    \/ refreshDataFinish

HoldingsSpec == AppInit /\ [][HoldingsNext]_vars

\* C29: in every reachable state the holdings list has at most one Holding
\* for a fund code.
C29_OneHoldingPerFund ==
    \A i \in 1..Len(holdings) : \A j \in 1..Len(holdings) :
        holdings[i].code = holdings[j].code => i = j

\* a fund's Holding has been written a second time: the ledger holds two
\* operations of the fund that each left a Holding, and the list holds one
\* Holding of the fund, which is not the one the older operation left
C29_Witness ==
    /\ Len(operations) = 2
    /\ operations[1].code = operations[2].code
    /\ operations[1].next # <<>> /\ operations[2].next # <<>>
    /\ Len(holdings) = 1
    /\ holdings[1].code = operations[1].code
    /\ <<holdings[1]>> # operations[2].next

\* the fields of an operation that say what it is
Frozen(op) ==
    <<op.id, op.code, op.type, op.date, op.timing, op.createdAt, op.applyAt, op.prev,
      op.next>>

\* C28: an operation in the ledger keeps its id, code, type, date, timing,
\* createdAt, applyAt, prev and next in every step; a step that changes it
\* in place either flips its status from pending to confirmed and nothing
\* else, or patches nav, amount and shares and nothing else.
C28_OnlyFlipAndPatch ==
    [][\A i \in 1..Len(operations) : \A j \in 1..Len(operations') :
         operations[i].id = operations'[j].id =>
            LET old == operations[i]
                new == operations'[j]
            IN  /\ Frozen(new) = Frozen(old)
                /\ \/ new = old
                   \/ new = [old EXCEPT !.status = "confirmed"] /\ old.status = "pending"
                   \/ new = [old EXCEPT !.nav = new.nav, !.amount = new.amount,
                                        !.shares = new.shares]]_vars

\* the reconciliation effect's pass for a fund is between its await and its end
EffectPassInFlight(code) == recompute # <<>> /\ recompute[1].code = code

\* refreshData has called computeHoldingFromOperations for a fund and has not
\* yet written its updates
RefreshPassInFlight(code) ==
    /\ refresh # <<>>
    /\ refresh[1].pc = "computed"
    /\ code \in (DOMAIN refresh[1].updates) \cup refresh[1].closed

\* C21: at most one reconciliation pass per fund is in flight: the pass of
\* the reconciliation effect and a pass of refreshData for the same fund are
\* never in flight together.
C21_OnePassPerFund ==
    \A code \in Codes : ~(EffectPassInFlight(code) /\ RefreshPassInFlight(code))

\* the sync key of a fund's ledger and latest NAV as they are now
CurrentKey(code) == buildHoldingSyncKey(Related(operations, code), fundCache[code])

\* C22: the key is compared before applying.  A pass of the reconciliation effect
\* changes the holdings only if the key it started with is the key of the
\* ledger and latest NAV at its completion, and refreshData changes a fund's
\* Holding only if the operations it reconciled are the fund's operations at
\* its completion.
C22_StaleResultDiscarded ==
    [][/\ (recompute # <<>> /\ recompute' = <<>> /\ holdings' # holdings)
            => buildHoldingSyncKey(recompute[1].ops, recompute[1].latestNav)
                 = CurrentKey(recompute[1].code)
       /\ (refresh # <<>> /\ refresh' = <<>> /\ holdings' # holdings)
            => \A code \in DOMAIN refresh[1].updates :
                  FindHolding(holdings', code) # FindHolding(holdings, code)
                  => SyncKey(Related(refresh[1].operations, code))
                       = SyncKey(Related(operations, code))]_vars

\* nothing is in flight and no effect is waiting to run: without a new
\* change of the ledger, the selection or the latest NAV nothing runs again
Settled ==
    /\ Flushed
    /\ trade = <<>> /\ batch = <<>> /\ refresh = <<>>
    /\ backfill = <<>> /\ recompute = <<>>

====
